---- MODULE Spec2Model ----
(***************************************************************************)
(* Model of the identity service of gabehamasaki/momentum:                 *)
(*   - the Database connection manager (services/identity/database/db.go), *)
(*   - the transactional seeder of permissions and roles (same file),      *)
(*   - the logging unary interceptor (shared/logger_unary.go),             *)
(*   - the service bootstrap (main of the identity service).               *)
(* Each subsystem has its own specification over the shared variables.     *)
(***************************************************************************)
EXTENDS Integers, Sequences, FiniteSets, TLC

(***************************************************************************)
(* Bounds of the model.                                                    *)
(***************************************************************************)
\* number of goroutines calling the Database concurrently
NumCallers == 2
\* total number of Database operations started in one behaviour
MaxCalls == 3
\* number of SeederWithContext runs in one behaviour
MaxSeedRuns == 2
MaxUsers == 1
MaxLoggerCalls == 2

VARIABLES
    db,        \* the Database struct: DSN and connection (0 = nil)
    mu,        \* the sync.RWMutex of the Database: readers count, writer (0 = none)
    pools,     \* connection pools opened by gorm.Open: live, closed, next id
    pc,        \* per caller: position in the operation it runs
    op,        \* per caller: operation it runs
    ret,       \* per caller: result of its last operation
    hist,      \* history: calls started, dials, failures, closes, handles returned and
               \* released, per caller the handles released before its call began
    store,     \* committed datastore rows: permissions, roles, role_permissions
    ids,       \* primary keys handed out so far (never rolled back)
    tx,        \* rows as seen inside the open seeding transaction
    seed,      \* the running SeederWithContext call: position and locals
    last,      \* history: spec and resulting rows of the last committed seed
    cfg,       \* the InterceptorConfig the interceptor was built with
    calls,     \* per call through the interceptor: position, inputs, results, log entries
    server,    \* the gRPC server process: "serving" or "crashed"
    san,       \* one sanitizeMetadata call: its arguments and, once returned, its result
    glog,      \* package shared: logger, loggerOnce, zap's globals, the goroutines using them
    boot       \* the process started by main: position, locals, timeout context, history

dbVars == <<db, mu, pools, pc, op, ret, hist>>

seedVars == <<store, ids, tx, seed, last>>

icptVars == <<cfg, calls, server, san, glog>>

bootVars == <<boot>>

vars == <<dbVars, seedVars, icptVars, bootVars>>

\* what the operations of the Database connection manager leave alone
restDb == <<seedVars, icptVars, bootVars>>

\* what the seeder leaves alone
restSeed == <<dbVars, icptVars, bootVars>>

\* what the interceptor leaves alone
restIcpt == <<dbVars, seedVars, bootVars>>

(***************************************************************************)
(* Database: services/identity/database/db.go                              *)
(***************************************************************************)
Callers == 1..NumCallers
NilConn == 0
NoErr == "nil"

\* the connection strings a Database is constructed with
DSNs == {"", "host=db"}

\* what the datastore does to one createConnection: gorm.Open fails,
\* db.DB() fails in configureConnectionPool, PingContext fails, or all succeed
ConnOutcomes == {"ok", "openFail", "poolFail", "pingFail"}

NewDBWithConfig(dsn) == [DSN |-> dsn, connection |-> NilConn]

\* the test of the connection string, taking every string for set
EmptyDSNIgnored(dsn) == FALSE

\* if d.DSN == "" of createConnection, if dsn == "" of initializeDatabase
EmptyDSN(dsn) == dsn = ""

\* createConnection storing the handle as soon as gorm.Open has returned it
createConnectionStoresEarly(d, pl, outcome) ==
    IF EmptyDSN(d.DSN)
    THEN [db |-> d, pools |-> pl, handle |-> NilConn, err |-> "DSN empty", dialed |-> FALSE]
    ELSE IF outcome = "openFail"
    THEN [db |-> d, pools |-> pl, handle |-> NilConn, err |-> "open failed", dialed |-> TRUE]
    ELSE [db |-> [d EXCEPT !.connection = pl.next],
          pools |-> [pl EXCEPT !.live = @ \cup {pl.next}, !.next = @ + 1],
          handle |-> IF outcome = "ok" THEN pl.next ELSE NilConn,
          err |-> IF outcome = "poolFail" THEN "pool configuration failed"
                  ELSE IF outcome = "pingFail" THEN "ping failed" ELSE NoErr,
          dialed |-> TRUE]

\* createConnection, run by the holder of the write lock.  Yields the new
\* Database fields, the pools, the returned handle and error, and whether
\* gorm.Open was called.
createConnection(d, pl, outcome) ==
    IF EmptyDSN(d.DSN)
    THEN [db |-> d, pools |-> pl, handle |-> NilConn, err |-> "DSN empty", dialed |-> FALSE]
    ELSE IF outcome = "openFail"
    THEN [db |-> d, pools |-> pl, handle |-> NilConn, err |-> "open failed", dialed |-> TRUE]
    ELSE LET id == pl.next
             opened == [pl EXCEPT !.live = @ \cup {id}, !.next = @ + 1]
         IN IF outcome = "poolFail"
            THEN [db |-> d, pools |-> opened, handle |-> NilConn,
                  err |-> "pool configuration failed", dialed |-> TRUE]
            ELSE IF outcome = "pingFail"
            THEN [db |-> d, pools |-> opened, handle |-> NilConn,
                  err |-> "ping failed", dialed |-> TRUE]
            ELSE [db |-> [d EXCEPT !.connection = id], pools |-> opened,
                  handle |-> id, err |-> NoErr, dialed |-> TRUE]

\* the re-check of d.connection under the write lock, with the double check left out
DoubleCheckSkipped(d) == FALSE

\* the re-check of d.connection under the write lock (double-checked locking)
DoubleCheck(d) == d.connection # NilConn

\* a caller starts an operation on the shared Database
Invoke(p, o) ==
    /\ pc[p] = "idle"
    /\ hist.calls < MaxCalls
    /\ pc' = [pc EXCEPT ![p] = "start"]
    /\ op' = [op EXCEPT ![p] = o]
    /\ ret' = [ret EXCEPT ![p] = [handle |-> NilConn, err |-> NoErr]]
    /\ hist' = [hist EXCEPT !.calls = @ + 1, !.before[p] = hist.released]
    /\ UNCHANGED <<db, mu, pools>>
    /\ UNCHANGED restDb

\* where a caller goes on when its ConnWithContext returns: HealthCheck has
\* more to do, a plain ConnWithContext call is over,
\* a handler of UserService returns the error or goes on to its query
AfterConn(p, err) ==
    IF op[p] = "HealthCheck" THEN "health"
    ELSE IF op[p] = "Request" /\ err = NoErr THEN "using"
    ELSE "done"

\* ConnWithContext: d.mu.RLock()
ConnRLock(p) ==
    /\ pc[p] = "start" /\ op[p] \in {"Conn", "HealthCheck", "Request"}
    /\ mu.writer = 0
    /\ mu' = [mu EXCEPT !.readers = @ + 1]
    /\ pc' = [pc EXCEPT ![p] = "rlocked"]
    /\ UNCHANGED <<db, pools, op, ret, hist>>
    /\ UNCHANGED restDb

\* ConnWithContext: the fast path under the read lock
ConnFastPath(p) ==
    /\ pc[p] = "rlocked"
    /\ mu' = [mu EXCEPT !.readers = @ - 1]
    /\ IF db.connection # NilConn
       THEN /\ ret' = [ret EXCEPT ![p] = [handle |-> db.connection, err |-> NoErr]]
            /\ hist' = [hist EXCEPT !.handles = @ \cup {db.connection}]
            /\ pc' = [pc EXCEPT ![p] = AfterConn(p, NoErr)]
       ELSE /\ pc' = [pc EXCEPT ![p] = "wantlock"]
            /\ UNCHANGED <<ret, hist>>
    /\ UNCHANGED <<db, pools, op>>
    /\ UNCHANGED restDb

\* ConnWithContext: d.mu.Lock()
ConnLock(p) ==
    /\ pc[p] = "wantlock"
    /\ mu.writer = 0 /\ mu.readers = 0
    /\ mu' = [mu EXCEPT !.writer = p]
    /\ pc' = [pc EXCEPT ![p] = "locked"]
    /\ UNCHANGED <<db, pools, op, ret, hist>>
    /\ UNCHANGED restDb

\* ConnWithContext: the second check under the write lock
ConnSlowPath(p) ==
    /\ pc[p] = "locked"
    /\ IF DoubleCheck(db)
       THEN /\ ret' = [ret EXCEPT ![p] = [handle |-> db.connection, err |-> NoErr]]
            /\ hist' = [hist EXCEPT !.handles = @ \cup {db.connection}]
            /\ mu' = [mu EXCEPT !.writer = 0]
            /\ pc' = [pc EXCEPT ![p] = AfterConn(p, NoErr)]
       ELSE /\ pc' = [pc EXCEPT ![p] = "creating"]
            /\ UNCHANGED <<ret, hist, mu>>
    /\ UNCHANGED <<db, pools, op>>
    /\ UNCHANGED restDb

\* ConnWithContext: return d.createConnection(ctx), then the deferred Unlock
ConnCreate(p) ==
    /\ pc[p] = "creating"
    /\ \E outcome \in ConnOutcomes :
         LET r == createConnection(db, pools, outcome)
         IN /\ db' = r.db
            /\ pools' = r.pools
            /\ ret' = [ret EXCEPT ![p] = [handle |-> r.handle, err |-> r.err]]
            /\ hist' = [hist EXCEPT
                          !.dials = IF r.dialed THEN @ + 1 ELSE @,
                          !.fails = IF r.err # NoErr THEN @ + 1 ELSE @,
                          !.handles = IF r.err = NoErr THEN @ \cup {r.handle} ELSE @,
                          !.passed = IF r.err = NoErr THEN @ \cup {r.handle} ELSE @]
    /\ mu' = [mu EXCEPT !.writer = 0]
    /\ pc' = [pc EXCEPT ![p] = AfterConn(p, ret'[p].err)]
    /\ UNCHANGED op
    /\ UNCHANGED restDb

\* what HealthCheck meets after ConnWithContext: db.DB() fails, PingContext
\* fails, or the ping succeeds
HealthOutcomes == {"ok", "dbFail", "pingFail"}

\* HealthCheck after its ConnWithContext: the error of the connection, or
\* db.DB() and PingContext on the handle it was given
HealthPing(p, health) ==
    /\ pc[p] = "health"
    /\ ret' = [ret EXCEPT ![p] =
                 [handle |-> NilConn,
                  err |-> IF ret[p].err # NoErr THEN ret[p].err
                          ELSE IF health = "dbFail" THEN "no sql connection"
                          ELSE IF health = "pingFail" THEN "ping failed"
                          ELSE NoErr]]
    /\ hist' = [hist EXCEPT !.pinged = @ \cup (IF ret[p].err = NoErr THEN {ret[p].handle} ELSE {})]
    /\ pc' = [pc EXCEPT ![p] = "done"]
    /\ UNCHANGED <<db, mu, pools, op>>
    /\ UNCHANGED restDb

\* Stats: d.mu.RLock()
StatsRLock(p) ==
    /\ pc[p] = "start" /\ op[p] = "Stats"
    /\ mu.writer = 0
    /\ mu' = [mu EXCEPT !.readers = @ + 1]
    /\ pc' = [pc EXCEPT ![p] = "stats"]
    /\ UNCHANGED <<db, pools, op, ret, hist>>
    /\ UNCHANGED restDb

\* what Stats meets on a stored handle: connection.DB() fails or answers
StatsOutcomes == {"ok", "dbFail"}

\* Stats obtaining its handle by connecting when none is stored
statsConnects(d, pl, outcome) ==
    IF d.connection = NilConn
    THEN createConnection(d, pl, "ok")
    ELSE [db |-> d, pools |-> pl, handle |-> d.connection, err |-> NoErr, dialed |-> FALSE]

\* what Stats does under the read lock: an error while no handle is stored
\* or when connection.DB() fails, else the counters of the stored handle's
\* pool (the snapshot is named by that handle)
stats(d, pl, outcome) ==
    IF d.connection = NilConn
    THEN [db |-> d, pools |-> pl, handle |-> NilConn, err |-> "no connection", dialed |-> FALSE]
    ELSE IF outcome = "dbFail"
    THEN [db |-> d, pools |-> pl, handle |-> NilConn, err |-> "no sql connection", dialed |-> FALSE]
    ELSE [db |-> d, pools |-> pl, handle |-> d.connection, err |-> NoErr, dialed |-> FALSE]

\* Stats: the body under the read lock, then the deferred RUnlock
StatsBody(p, outcome) ==
    /\ pc[p] = "stats"
    /\ LET r == stats(db, pools, outcome)
       IN /\ db' = r.db
          /\ pools' = r.pools
          /\ ret' = [ret EXCEPT ![p] = [handle |-> r.handle, err |-> r.err]]
          /\ hist' = [hist EXCEPT !.dials = IF r.dialed THEN @ + 1 ELSE @]
    /\ mu' = [mu EXCEPT !.readers = @ - 1]
    /\ pc' = [pc EXCEPT ![p] = "done"]
    /\ UNCHANGED op
    /\ UNCHANGED restDb

\* what the datastore answers to a handler's query on an open pool
QueryOutcomes == {"ok", "err"}

\* GetUsers / StoreUser: the query on the handle ConnWithContext returned;
\* on a pool that was shut meanwhile it fails.  Then the deferred
\* s.db.Close() is due.
Query(p, outcome) ==
    /\ pc[p] = "using"
    /\ ret' = [ret EXCEPT ![p] =
                 [@ EXCEPT !.err = IF ret[p].handle \in pools.closed THEN "database is closed"
                                   ELSE IF outcome = "err" THEN "query failed"
                                   ELSE NoErr]]
    /\ pc' = [pc EXCEPT ![p] = "deferred"]
    /\ UNCHANGED <<db, mu, pools, op, hist>>
    /\ UNCHANGED restDb

\* Close: d.mu.Lock()
CloseLock(p) ==
    /\ \/ pc[p] = "start" /\ op[p] = "Close"
       \/ pc[p] = "deferred" /\ op[p] = "Request"
    /\ mu.writer = 0 /\ mu.readers = 0
    /\ mu' = [mu EXCEPT !.writer = p]
    /\ pc' = [pc EXCEPT ![p] = "closing"]
    /\ UNCHANGED <<db, pools, op, ret, hist>>
    /\ UNCHANGED restDb

\* sqlDB.Close() on a pool: it is shut, and stays shut when called again
Shut(pl, id) == [pl EXCEPT !.live = @ \ {id}, !.closed = @ \cup {id}]

\* Close that shuts the pool and keeps the handle stored
closeKeepsHandle(d, pl, closeOutcome) ==
    IF d.connection = NilConn
    THEN [db |-> d, pools |-> pl, err |-> NoErr, closed |-> FALSE]
    ELSE [db |-> d, pools |-> Shut(pl, d.connection), err |-> NoErr, closed |-> TRUE]

\* Close that forgets the handle when sqlDB.Close() reports an error
closeDropsOnFailure(d, pl, closeOutcome) ==
    IF d.connection = NilConn
    THEN [db |-> d, pools |-> pl, err |-> NoErr, closed |-> FALSE]
    ELSE IF closeOutcome \in {"dbFail", "closeFail"}
    THEN [db |-> [d EXCEPT !.connection = NilConn], pools |-> pl,
          err |-> "close failed", closed |-> FALSE]
    ELSE [db |-> [d EXCEPT !.connection = NilConn],
          pools |-> Shut(pl, d.connection),
          err |-> NoErr, closed |-> TRUE]

\* what Close does under the write lock; closeOutcome is what the pool
\* answers.  A sqlDB.Close() that reports an error has either left the pool
\* open ("closeFail") or shut it all the same ("closeFailShut"); on a pool
\* that is shut already it returns nil.  closed tells whether this call shut
\* an open pool.
close(d, pl, closeOutcome) ==
    IF d.connection = NilConn
    THEN [db |-> d, pools |-> pl, err |-> NoErr, closed |-> FALSE]
    ELSE IF closeOutcome = "dbFail"
    THEN [db |-> d, pools |-> pl, err |-> "no sql connection", closed |-> FALSE]
    ELSE IF d.connection \in pl.closed
    THEN [db |-> [d EXCEPT !.connection = NilConn], pools |-> pl,
          err |-> NoErr, closed |-> FALSE]
    ELSE IF closeOutcome = "closeFail"
    THEN [db |-> d, pools |-> pl, err |-> "close failed", closed |-> FALSE]
    ELSE IF closeOutcome = "closeFailShut"
    THEN [db |-> d, pools |-> Shut(pl, d.connection), err |-> "close failed",
          closed |-> TRUE]
    ELSE [db |-> [d EXCEPT !.connection = NilConn],
          pools |-> Shut(pl, d.connection),
          err |-> NoErr, closed |-> TRUE]

CloseOutcomes == {"ok", "dbFail", "closeFail", "closeFailShut"}

\* Close: the body under the write lock, then the deferred Unlock
CloseBody(p) ==
    /\ pc[p] = "closing"
    /\ \E outcome \in CloseOutcomes :
         LET r == close(db, pools, outcome)
         IN /\ db' = r.db
            /\ pools' = r.pools
            /\ ret' = IF op[p] = "Request" THEN ret
                      ELSE [ret EXCEPT ![p] = [handle |-> NilConn, err |-> r.err]]
            /\ hist' = [hist EXCEPT !.closes = IF r.closed THEN @ + 1 ELSE @,
                                    !.closeCalls = @ + 1,
                                    !.released = IF r.err = NoErr
                                                 THEN @ \cup ({db.connection} \ {NilConn})
                                                 ELSE @,
                                    !.failedOn = IF r.err # NoErr
                                                 THEN @ \cup {db.connection}
                                                 ELSE @]
    /\ mu' = [mu EXCEPT !.writer = 0]
    /\ pc' = [pc EXCEPT ![p] = "done"]
    /\ UNCHANGED op
    /\ UNCHANGED restDb

\* the caller takes the result and is free for its next operation
Return(p) ==
    /\ pc[p] = "done"
    /\ pc' = [pc EXCEPT ![p] = "idle"]
    /\ hist' = [hist EXCEPT !.before[p] = {}]
    /\ UNCHANGED <<db, mu, pools, op, ret>>
    /\ UNCHANGED restDb

(***************************************************************************)
(* Seeder: SeederWithContext, seedPermissions, seedRoles and               *)
(* createRoleWithPermissions of services/identity/database/db.go           *)
(***************************************************************************)
PV == "profile.view"
UV == "user.view"
US == "user.store"

\* the permissions list of seedPermissions and the rolesConfig of seedRoles,
\* cut down to two permissions: member holds a part of what admin holds
CodeSeedSpec ==
    [perms |-> <<PV, UV>>, roles |-> [member |-> <<PV>>, admin |-> <<PV, UV>>]]

\* the same permissions with another role mapping: each role loses one
\* permission, member gains one
OtherSeedSpec ==
    [perms |-> <<PV, UV>>, roles |-> [member |-> <<UV>>, admin |-> <<PV>>]]

\* a mapping naming a permission (user.store) that the permission list lacks
UnresolvedSeedSpec ==
    [perms |-> <<PV>>, roles |-> [member |-> <<PV, US>>, admin |-> <<UV>>]]

\* a release that seeds the member role alone: the admin role and the
\* user.view permission are named nowhere in it
MemberSeedSpec ==
    [perms |-> <<PV>>, roles |-> [member |-> <<PV>>]]

\* the permission lists and role mappings SeederWithContext is run with
SeedSpecs == {CodeSeedSpec, OtherSeedSpec, UnresolvedSeedSpec, MemberSeedSpec}

\* what the datastore answers to one statement of the transaction
SeedOutcomes == {"ok", "err"}

EmptyRows == [perms |-> {}, roles |-> {}, assoc |-> {}, users |-> {}]
NoRow == [id |-> 0, name |-> ""]

MinId(rows) == CHOOSE r \in rows : \A q \in rows : r.id <= q.id

\* Where("name = ?", name).First(&x): the row of that name with the least
\* primary key, NoRow for gorm.ErrRecordNotFound
First(rows, name) ==
    LET m == {r \in rows : r.name = name}
    IN IF m = {} THEN NoRow ELSE MinId(m)

\* the lookup of seedPermissions, never finding the permission
FirstPermissionNotFound(rows, name) == NoRow

\* the lookup of seedPermissions
FirstPermission(rows, name) == First(rows, name)

\* the lookup of createRoleWithPermissions, never finding the role
FirstRoleNotFound(rows, name) == NoRow

\* the lookup of createRoleWithPermissions
FirstRole(rows, name) == First(rows, name)

\* Where("name IN ?", permNames).Find(&permissions)
Find(rows, permNames) ==
    {r \in rows : \E k \in 1..Len(permNames) : r.name = permNames[k]}

\* len(permissions) != len(permNames) is the failure
AllFound(permissions, permNames) == Cardinality(permissions) = Len(permNames)

\* a Clear that removes the associations of every role
ClearAll(assoc, roleId) == {}

\* Association("Permissions").Clear() of one role
Clear(assoc, roleId) == {a \in assoc : a[1] # roleId}

\* Association("Permissions").Append(permissions) of one role
Append_(assoc, roleId, permissions) ==
    assoc \cup {<<roleId, q.id>> : q \in permissions}

\* the rows left when the transaction ends in an error, without the rollback
RollbackKeepsChanges(committed, changed) == changed

\* the rows left when the transaction function returns an error: Transaction
\* rolls back, the committed rows stand
Rollback(committed, changed) == committed

SeedIdle ==
    [pc |-> "idle", spec |-> CodeSeedSpec, i |-> 0, todo |-> {}, role |-> NoRow,
     found |-> {}, pre |-> EmptyRows, prev |-> [valid |-> FALSE, spec |-> CodeSeedSpec, rows |-> EmptyRows],
     lost |-> EmptyRows, err |-> NoErr, runs |-> 0]

\* the context handed to the Database operations is cancelled or past its
\* deadline: the shutdown signal or the timeout of initializeDatabase
CtxDone == boot.signal \/ boot.deadline

\* a statement run with a context that is done fails
CtxAllows(outcome) == CtxDone => outcome # "ok"

\* db.WithContext(ctx).Transaction(...) begins: the transaction works on a
\* copy of the committed rows
Transaction(spec) ==
    /\ seed.pc = "idle"
    /\ seed.runs < MaxSeedRuns
    /\ tx' = store
    /\ seed' = [seed EXCEPT !.pc = "perms", !.spec = spec, !.i = 1, !.todo = {},
                            !.role = NoRow, !.found = {}, !.pre = store,
                            !.prev = last, !.lost = EmptyRows, !.err = NoErr,
                            !.runs = @ + 1]
    /\ UNCHANGED <<store, ids, last>>

\* SeederWithContext called on a connected Database
SeedBegin(spec) ==
    /\ Transaction(spec)
    /\ UNCHANGED restSeed

\* seedPermissions: one turn of the loop over the permission names
SeedPermission(outcome) ==
    /\ CtxAllows(outcome)
    /\ seed.pc = "perms"
    /\ seed.i <= Len(seed.spec.perms)
    /\ LET name == seed.spec.perms[seed.i]
           perm == FirstPermission(tx.perms, name)
       IN IF outcome = "err"
          THEN /\ seed' = [seed EXCEPT !.pc = "rollback", !.err = "permission"]
               /\ UNCHANGED <<tx, ids>>
          ELSE /\ seed' = [seed EXCEPT !.i = @ + 1]
               /\ IF perm = NoRow
                  THEN /\ tx' = [tx EXCEPT !.perms = @ \cup {[id |-> ids.perm, name |-> name]}]
                       /\ ids' = [ids EXCEPT !.perm = @ + 1]
                  ELSE UNCHANGED <<tx, ids>>
    /\ UNCHANGED <<store, last>>
    /\ UNCHANGED restSeed

\* seedPermissions returns nil; seedRoles starts ranging over rolesConfig
SeedPermissionsDone ==
    /\ seed.pc = "perms"
    /\ seed.i > Len(seed.spec.perms)
    /\ seed' = [seed EXCEPT !.pc = "roles", !.todo = DOMAIN seed.spec.roles]
    /\ UNCHANGED <<store, ids, tx, last>>
    /\ UNCHANGED restSeed

\* createRoleWithPermissions: look the role up by name, create it if absent.
\* The range over the rolesConfig map takes the roles in any order.
SeedRole(roleName, outcome) ==
    /\ CtxAllows(outcome)
    /\ seed.pc = "roles"
    /\ roleName \in seed.todo
    /\ LET role == FirstRole(tx.roles, roleName)
           created == [id |-> ids.role, name |-> roleName]
       IN IF outcome = "err"
          THEN /\ seed' = [seed EXCEPT !.pc = "rollback", !.err = "role"]
               /\ UNCHANGED <<tx, ids>>
          ELSE IF role = NoRow
          THEN /\ tx' = [tx EXCEPT !.roles = @ \cup {created}]
               /\ ids' = [ids EXCEPT !.role = @ + 1]
               /\ seed' = [seed EXCEPT !.pc = "find", !.role = created,
                                       !.todo = @ \ {roleName}]
          ELSE /\ seed' = [seed EXCEPT !.pc = "find", !.role = role,
                                       !.todo = @ \ {roleName}]
               /\ UNCHANGED <<tx, ids>>
    /\ UNCHANGED <<store, last>>
    /\ UNCHANGED restSeed

\* createRoleWithPermissions: fetch the permissions in one query and compare
\* the number of rows with the number of names
SeedFind(outcome) ==
    /\ CtxAllows(outcome)
    /\ seed.pc = "find"
    /\ LET permNames == seed.spec.roles[seed.role.name]
           permissions == Find(tx.perms, permNames)
       IN IF outcome = "err"
          THEN seed' = [seed EXCEPT !.pc = "rollback", !.err = "find"]
          ELSE IF ~AllFound(permissions, permNames)
          THEN seed' = [seed EXCEPT !.pc = "rollback", !.err = "not all found"]
          ELSE seed' = [seed EXCEPT !.pc = "clear", !.found = permissions]
    /\ UNCHANGED <<store, ids, tx, last>>
    /\ UNCHANGED restSeed

\* createRoleWithPermissions: clear the role's associations
SeedClear(outcome) ==
    /\ CtxAllows(outcome)
    /\ seed.pc = "clear"
    /\ IF outcome = "err"
       THEN /\ seed' = [seed EXCEPT !.pc = "rollback", !.err = "clear"]
            /\ UNCHANGED tx
       ELSE /\ tx' = [tx EXCEPT !.assoc = Clear(@, seed.role.id)]
            /\ seed' = [seed EXCEPT !.pc = "append"]
    /\ UNCHANGED <<store, ids, last>>
    /\ UNCHANGED restSeed

\* createRoleWithPermissions: associate the fetched permissions
SeedAppend(outcome) ==
    /\ CtxAllows(outcome)
    /\ seed.pc = "append"
    /\ IF outcome = "err"
       THEN /\ seed' = [seed EXCEPT !.pc = "rollback", !.err = "append"]
            /\ UNCHANGED tx
       ELSE /\ tx' = [tx EXCEPT !.assoc = Append_(@, seed.role.id, seed.found)]
            /\ seed' = [seed EXCEPT !.pc = "roles", !.found = {}]
    /\ UNCHANGED <<store, ids, last>>
    /\ UNCHANGED restSeed

\* the transaction function returned nil: commit
SeedCommit(outcome) ==
    /\ CtxAllows(outcome)
    /\ seed.pc = "roles"
    /\ seed.todo = {}
    /\ IF outcome = "err"
       THEN /\ seed' = [seed EXCEPT !.pc = "done", !.err = "commit", !.role = NoRow,
                                    !.lost = tx]
            /\ store' = Rollback(store, tx)
            /\ UNCHANGED last
       ELSE /\ store' = tx
            /\ last' = [valid |-> TRUE, spec |-> seed.spec, rows |-> tx]
            /\ seed' = [seed EXCEPT !.pc = "done", !.role = NoRow]
    /\ tx' = EmptyRows
    /\ UNCHANGED ids
    /\ UNCHANGED restSeed

\* the transaction function returned an error: roll back
SeedRollback ==
    /\ seed.pc = "rollback"
    /\ seed' = [seed EXCEPT !.pc = "done", !.role = NoRow, !.found = {}, !.lost = tx]
    /\ store' = Rollback(store, tx)
    /\ tx' = EmptyRows
    /\ UNCHANGED <<ids, last>>
    /\ UNCHANGED restSeed

\* SeederWithContext has returned
SeedReturn ==
    /\ seed.pc = "done"
    /\ seed' = [seed EXCEPT !.pc = "idle"]
    /\ UNCHANGED <<store, ids, tx, last>>
    /\ UNCHANGED restSeed

\* the roles of the earlier Seeder, each carrying its own Permission values,
\* cut down like CodeSeedSpec
LegacyRoles ==
    <<[name |-> "member", perms |-> <<PV>>], [name |-> "admin", perms |-> <<PV, UV>>]>>

\* the permission rows db.Create(&role) inserts for the role's Permissions:
\* one new row per listed value, whatever rows of that name exist
LegacyPerms(permNames, firstId) ==
    {[id |-> firstId + k - 1, name |-> permNames[k]] : k \in 1..Len(permNames)}

\* the earlier Seeder from role k on; the statement for role failAt fails
RECURSIVE LegacyFrom(_, _, _, _)
LegacyFrom(rows, idc, k, failAt) ==
    IF k > Len(LegacyRoles) \/ k = failAt
    THEN [rows |-> rows, ids |-> idc]
    ELSE LET r == LegacyRoles[k]
             created == LegacyPerms(r.perms, idc.perm)
         IN IF First(rows.roles, r.name) # NoRow
            THEN LegacyFrom(rows, idc, k + 1, failAt)
            ELSE LegacyFrom(
                   [rows EXCEPT
                      !.perms = @ \cup created,
                      !.roles = @ \cup {[id |-> idc.role, name |-> r.name]},
                      !.assoc = @ \cup {<<idc.role, q.id>> : q \in created}],
                   [perm |-> idc.perm + Len(r.perms), role |-> idc.role + 1],
                   k + 1, failAt)

\* the earlier Seeder, run against the datastore by an earlier release
LegacySeeder(failAt) ==
    /\ seed.pc = "idle"
    /\ LET r == LegacyFrom(store, ids, 1, failAt)
       IN /\ store' = r.rows
          /\ ids' = r.ids
          /\ last' = IF r.rows = store THEN last ELSE [last EXCEPT !.valid = FALSE]
    /\ UNCHANGED <<tx, seed>>
    /\ UNCHANGED restSeed

\* UserService.StoreUser: conn.Create(&user) inserts a user row that refers
\* to a role. Requests are served once the bootstrap has seeded, so a row
\* is inserted between seed runs.
UserCreate ==
    /\ seed.pc = "idle"
    /\ Cardinality(store.users) < MaxUsers
    /\ \E r \in store.roles :
          store' = [store EXCEPT !.users = @ \cup {[id |-> Cardinality(store.users) + 1,
                                                   roleId |-> r.id]}]
    /\ UNCHANGED <<ids, tx, seed, last>>
    /\ UNCHANGED restSeed

(***************************************************************************)
(* Logging interceptor: shared/logger_unary.go                             *)
(***************************************************************************)
\* Strings that are searched are sequences of one-character strings.
UpperChars ==
    <<"A", "B", "C", "D", "E", "F", "G", "H", "I", "J", "K", "L", "M", "N", "O", "P", "Q", "R", "S", "T", "U", "V", "W", "X", "Y", "Z">>
LowerChars ==
    <<"a", "b", "c", "d", "e", "f", "g", "h", "i", "j", "k", "l", "m", "n", "o", "p", "q", "r", "s", "t", "u", "v", "w", "x", "y", "z">>

\* strings.ToLower, one character
LowerChar(c) ==
    IF \E k \in 1..Len(UpperChars) : UpperChars[k] = c
    THEN LowerChars[CHOOSE k \in 1..Len(UpperChars) : UpperChars[k] = c]
    ELSE c

\* strings.ToLower
ToLower(s) == [k \in 1..Len(s) |-> LowerChar(s[k])]

\* strings.Contains
Contains(s, substr) ==
    \E k \in 0..(Len(s) - Len(substr)) : SubSeq(s, k + 1, k + Len(substr)) = substr

\* Go values of type any: nil, a string, or a struct with named fields
NilValue == [kind |-> "nil", str |-> <<>>, fields |-> <<>>]
Absent == [kind |-> "absent", str |-> <<>>, fields |-> <<>>]
Str(s) == [kind |-> "string", str |-> s, fields |-> <<>>]
Struct(fs) == [kind |-> "struct", str |-> <<>>, fields |-> fs]

\* the fields of a struct as %+v prints them: Name:value, separated by spaces
RECURSIVE RenderFields(_, _)
RenderFields(fs, k) ==
    IF k > Len(fs) THEN <<>>
    ELSE (IF k > 1 THEN <<" ">> ELSE <<>>) \o fs[k].name \o <<":">> \o fs[k].value
         \o RenderFields(fs, k + 1)

\* fmt.Sprintf("%+v", obj)
Render(v) ==
    IF v.kind = "nil" THEN <<"<", "n", "i", "l", ">">>
    ELSE IF v.kind = "string" THEN v.str
    ELSE <<"{">> \o RenderFields(v.fields, 1) \o <<"}">>

\* the replacement sanitizeFields returns for a sensitive payload
RedactedPayload == Str(<<"[REDACTED - Contains sensitive data]">>)

\* the replacement sanitizeMetadata stores for a sensitive key
RedactedValues == <<"[REDACTED]">>

\* the loop of sanitizeFields and sanitizeMetadata over the sensitive fields
IsSensitive(text, sensitiveFields) ==
    \E k \in 1..Len(sensitiveFields) :
        Contains(ToLower(text), ToLower(sensitiveFields[k]))

\* sanitizeFields comparing the rendered text as it is spelled
sanitizeFieldsCaseSensitive(obj, sensitiveFields) ==
    IF obj.kind = "nil" THEN NilValue
    ELSE IF \E k \in 1..Len(sensitiveFields) : Contains(Render(obj), ToLower(sensitiveFields[k]))
    THEN RedactedPayload
    ELSE obj

\* sanitizeFields
sanitizeFields(obj, sensitiveFields) ==
    IF obj.kind = "nil" THEN NilValue
    ELSE IF IsSensitive(Render(obj), sensitiveFields) THEN RedactedPayload
    ELSE obj

\* sanitizeMetadata comparing the key as it is spelled
sanitizeMetadataCaseSensitive(md, sensitiveFields) ==
    [key \in DOMAIN md |->
        IF \E k \in 1..Len(sensitiveFields) : Contains(key, ToLower(sensitiveFields[k]))
        THEN RedactedValues ELSE md[key]]

\* sanitizeMetadata: md maps keys to value lists
sanitizeMetadata(md, sensitiveFields) ==
    [key \in DOMAIN md |->
        IF IsSensitive(key, sensitiveFields) THEN RedactedValues ELSE md[key]]

\* the incoming metadata after a sanitizeMetadata that writes the markers
\* into the map it was given
IncomingRedactedInPlace(config, md) ==
    IF config.LogMetadata /\ md.present
    THEN [present |-> TRUE, md |-> sanitizeMetadata(md.md, config.SensitiveFields)]
    ELSE md

\* the incoming metadata after the interceptor has built its logger:
\* sanitizeMetadata fills a map of its own (make) and only reads md
IncomingAfter(config, md) == md

\* SensitiveFields of the interceptorConfig built by setupGRPCServer
MainSensitiveFields ==
    << <<"p", "a", "s", "s", "w", "o", "r", "d">>,
       <<"t", "o", "k", "e", "n">>,
       <<"s", "e", "c", "r", "e", "t">>,
       <<"a", "u", "t", "h", "o", "r", "i", "z", "a", "t", "i", "o", "n">>,
       <<"c", "o", "o", "k", "i", "e">> >>

\* SensitiveFields of DefaultInterceptorConfig
DefaultSensitiveFields ==
    << <<"p", "a", "s", "s", "w", "o", "r", "d">>,
       <<"t", "o", "k", "e", "n">>,
       <<"s", "e", "c", "r", "e", "t">>,
       <<"k", "e", "y">>,
       <<"a", "u", "t", "h", "o", "r", "i", "z", "a", "t", "i", "o", "n">> >>

\* a configuration whose SensitiveFields leave out password
TokenSensitiveFields == << <<"T", "o", "k", "e", "n">> >>

\* SlowRequestThreshold of setupGRPCServer, in seconds
SlowRequestThreshold == 3

InterceptorConfig(logRequests, logResponses, logMetadata, sensitiveFields) ==
    [Logger |-> "zap", LogLevel |-> "info", LogRequests |-> logRequests,
     LogResponses |-> logResponses, LogMetadata |-> logMetadata,
     SensitiveFields |-> sensitiveFields,
     SlowRequestThreshold |-> SlowRequestThreshold, ServerName |-> "identity-service"]

\* the configuration of setupGRPCServer with the environment's defaults
MainConfig == InterceptorConfig(TRUE, FALSE, FALSE, MainSensitiveFields)

\* a nil *zap.Logger
NilLogger == "nil"

\* a configuration built by hand with the Logger field left unset
NilLoggerConfig == [MainConfig EXCEPT !.Logger = NilLogger]

\* the configurations the interceptor is built with
Configs ==
    { MainConfig,
      InterceptorConfig(TRUE, TRUE, TRUE, DefaultSensitiveFields),
      InterceptorConfig(FALSE, FALSE, TRUE, MainSensitiveFields),
      InterceptorConfig(TRUE, TRUE, FALSE, TokenSensitiveFields) }

\* request payloads
ReqGet == Struct(<<[name |-> <<"I", "d">>, value |-> <<"7">>]>>)
ReqStore ==
    Struct(<<[name |-> <<"E", "m", "a", "i", "l">>, value |-> <<"a">>], [name |-> <<"P", "a", "s", "s", "w", "o", "r", "d">>, value |-> <<"x">>]>>)
ReqNote == Struct(<<[name |-> <<"N", "o", "t", "e">>, value |-> <<"p", "a", "s", "s", "w", "o", "r", "d", "=", "x">>]>>)

\* incoming metadata; NoMD when the context carries none
NoMD == [present |-> FALSE, md |-> <<>>]
CallMD ==
    [present |-> TRUE,
     md |-> [key \in {<<"A", "u", "t", "h", "o", "r", "i", "z", "a", "t", "i", "o", "n">>, <<"x", "-", "i", "d">>} |->
               IF key = <<"x", "-", "i", "d">> THEN <<"r1">> ELSE <<"Bearer t">>]]

\* what a call arrives with: request and metadata
Inputs ==
    { [req |-> ReqGet, md |-> CallMD],
      [req |-> ReqStore, md |-> CallMD],
      [req |-> ReqNote, md |-> NoMD],
      [req |-> NilValue, md |-> NoMD] }

\* errors: nil, a gRPC status error, or another error
NilErr == [isNil |-> TRUE, isStatus |-> FALSE, code |-> "OK", msg |-> <<>>]
StatusErr(code, msg) == [isNil |-> FALSE, isStatus |-> TRUE, code |-> code, msg |-> msg]
PlainErr(msg) == [isNil |-> FALSE, isStatus |-> FALSE, code |-> "", msg |-> msg]

\* status.Code(err)
Code(err) ==
    IF err.isNil THEN "OK" ELSE IF err.isStatus THEN err.code ELSE "Unknown"

\* status.FromError(err), then Message()
Message(err) == err.msg

\* a response payload of the service
RespUser == Struct(<<[name |-> <<"I", "d">>, value |-> <<"7">>], [name |-> <<"N", "a", "m", "e">>, value |-> <<"a", "n", "n">>]>>)

\* the value recover() yields for panic(nil) since Go 1.21
PanicNilError == Struct(<<[name |-> <<"P", "a", "n", "i", "c", "N", "i", "l", "E", "r", "r", "o", "r">>, value |-> <<>>]>>)

\* what the handler does with the request it is given: it returns a response
\* (none, its own, or the request echoed), returns an error (a status error,
\* another error, or a status error quoting the request), or panics
Outcomes(req) ==
    {[kind |-> "ok", resp |-> r, err |-> NilErr, val |-> NilValue] :
        r \in {NilValue, RespUser, req}}
    \cup
    {[kind |-> "err", resp |-> NilValue, err |-> e, val |-> NilValue] :
        e \in {StatusErr("NotFound", <<"user not found">>),
               PlainErr(<<"record not found">>),
               StatusErr("InvalidArgument", <<"invalid request: ">> \o Render(req))}}
    \cup
    {[kind |-> "panic", resp |-> NilValue, err |-> NilErr, val |-> v] :
        v \in {Str(<<"b", "o", "o", "m">>), PanicNilError}}

\* every outcome of the handler, for any request
AllOutcomes == UNION {Outcomes(in.req) : in \in Inputs}

\* elapsed time measured by time.Since(startTime), in seconds: below, at and
\* above the threshold
Durations == (SlowRequestThreshold - 1)..(SlowRequestThreshold + 1)

\* the calls through the interceptor in one behaviour
CallIds == {"call1", "call2"}

\* string(debug.Stack())
StackTrace == <<"goroutine 1 [running]:">>

\* a log entry and the fields the interceptor may put on it
Entry(msg, level) ==
    [msg |-> msg, level |-> level, server |-> "", metadata |-> NoMD,
     request |-> Absent, response |-> Absent, panic |-> Absent, stack |-> <<>>,
     duration |-> -1, code |-> "", error |-> NilErr, status |-> "", message |-> <<>>,
     slow |-> FALSE]

\* the base logger: config.Logger.With(server_name, ...), with the sanitized
\* metadata when LogMetadata is set and the context carries metadata
WithLogger(config, md, e) ==
    [e EXCEPT !.server = config.ServerName,
              !.metadata = IF config.LogMetadata /\ md.present
                           THEN [present |-> TRUE,
                                 md |-> sanitizeMetadata(md.md, config.SensitiveFields)]
                           ELSE NoMD]

\* "gRPC request received", with the request attached whatever LogRequests is
RequestEntryAlways(config, req, md) ==
    WithLogger(config, md,
        [Entry("gRPC request received", config.LogLevel)
            EXCEPT !.request = sanitizeFields(req, config.SensitiveFields)])

\* how often each sanitizer is called before the handler: sanitizeMetadata
\* inside "if config.LogMetadata" when the context carries metadata,
\* sanitizeFields inside "if config.LogRequests"
SanitizerRuns(config, md) ==
    [metadata |-> IF config.LogMetadata /\ md.present THEN 1 ELSE 0,
     request |-> IF config.LogRequests THEN 1 ELSE 0]

\* "gRPC request received"
RequestEntry(config, req, md) ==
    WithLogger(config, md,
        IF config.LogRequests
        THEN [Entry("gRPC request received", config.LogLevel)
                 EXCEPT !.request = sanitizeFields(req, config.SensitiveFields)]
        ELSE Entry("gRPC request received", config.LogLevel))

\* duration > config.SlowRequestThreshold, with the comparison turned around
IsSlowInverted(duration, config) == duration < config.SlowRequestThreshold

\* duration > config.SlowRequestThreshold, with >= in place of >
IsSlowOrEqual(duration, config) == duration >= config.SlowRequestThreshold

\* duration > config.SlowRequestThreshold
IsSlow(duration, config) == duration > config.SlowRequestThreshold

\* the entry written after the handler returned resp, err
CompletionEntry(config, md, resp, err, duration) ==
    LET base == [Entry("", "") EXCEPT !.duration = duration, !.code = Code(err)]
        withResp == IF config.LogResponses /\ resp.kind # "nil"
                    THEN [base EXCEPT !.response = sanitizeFields(resp, config.SensitiveFields)]
                    ELSE base
    IN WithLogger(config, md,
        IF ~err.isNil
        THEN [base EXCEPT !.msg = "gRPC method failed", !.level = "error",
                          !.error = err, !.status = Code(err), !.message = Message(err)]
        ELSE IF IsSlow(duration, config)
        THEN [withResp EXCEPT !.msg = "gRPC method completed (SLOW)", !.level = "warn",
                              !.slow = TRUE]
        ELSE [withResp EXCEPT !.msg = "gRPC method completed", !.level = config.LogLevel])

\* the entry written by the deferred function for a recovered panic value r
PanicEntry(config, md, r, duration) ==
    WithLogger(config, md,
        [Entry("gRPC method panicked", "error")
            EXCEPT !.panic = r, !.stack = StackTrace, !.duration = duration])

\* the error for a recovered panic, with the stack put into its message
PanicErrorWithStack(r) ==
    StatusErr("Internal", <<"panic recovered: ">> \o Render(r) \o <<"\n">> \o StackTrace)

\* status.Errorf(codes.Internal, "panic recovered: %v", r)
PanicError(r) == StatusErr("Internal", <<"panic recovered: ">> \o Render(r))

\* a handler panic with the deferred recover left out: nothing is caught
NoPanicBoundary(out) == FALSE

\* whether the deferred function's recover() catches the handler's outcome
PanicBoundary(out) == out.kind = "panic"

\* what the interceptor returns for a handler that returned: the response
\* replaced by what was logged for it
ResultsSanitized(config, out) ==
    [resp |-> sanitizeFields(out.resp, config.SensitiveFields), err |-> out.err]

\* what the interceptor returns for a handler that returned: return resp, err
Results(config, out) == [resp |-> out.resp, err |-> out.err]

NewCall ==
    [pc |-> "new", req |-> NilValue, md |-> NoMD, passed |-> Absent,
     out |-> [kind |-> "none", resp |-> NilValue, err |-> NilErr, val |-> NilValue],
     dur |-> -1, resp |-> NilValue, err |-> NilErr, entries |-> <<>>,
     afterPanic |-> FALSE, inflight |-> {}, passedCtx |-> NoMD, handlerCalls |-> 0,
     ran |-> [metadata |-> 0, request |-> 0], mdAfter |-> NoMD]

\* the request given to the handler, taken from the sanitized copy
HandlerArgSanitized(config, req) == sanitizeFields(req, config.SensitiveFields)

\* handler(ctx, req): the request the interceptor received
HandlerArg(config, req) == req

\* the interceptor is entered for a call: it builds the logger, writes the
\* request entry, installs the deferred recover and calls handler(ctx, req)
IcptStart(c, in) ==
    /\ server = "serving"
    /\ calls[c].pc = "new"
    /\ IF cfg.Logger = NilLogger
       THEN \* config.Logger.With(...) dereferences the nil logger before the
            \* deferred recover is installed: the panic ends the process
            /\ calls' = [calls EXCEPT ![c] =
                            [@ EXCEPT !.pc = "crashed", !.req = in.req, !.md = in.md]]
            /\ server' = "crashed"
       ELSE /\ calls' = [calls EXCEPT ![c] =
                            [@ EXCEPT !.pc = "handler", !.req = in.req, !.md = in.md,
                                      !.passed = HandlerArg(cfg, in.req),
                                      !.passedCtx = IncomingAfter(cfg, in.md),
                                      !.mdAfter = IncomingAfter(cfg, in.md),
                                      !.handlerCalls = @ + 1,
                                      !.ran = SanitizerRuns(cfg, in.md),
                                      !.entries = <<RequestEntry(cfg, in.req, in.md)>>,
                                      !.afterPanic =
                                          \E o \in DOMAIN calls :
                                              /\ calls[o].pc = "returned"
                                              /\ calls[o].out.kind = "panic"]]
            /\ UNCHANGED server
    /\ UNCHANGED <<cfg, san, glog>>
    /\ UNCHANGED restIcpt

\* the other calls that are inside their handlers
InFlight(c) == {d \in CallIds \ {c} : calls[d].pc = "handler"}

\* the handler returns or panics after some time; the interceptor writes the
\* terminal entry and returns to the caller
IcptFinish(c, out, duration) ==
    /\ server = "serving"
    /\ calls[c].pc = "handler"
    /\ out \in Outcomes(calls[c].req)
    /\ IF out.kind = "panic"
       THEN IF PanicBoundary(out)
            THEN /\ calls' = [calls EXCEPT ![c] =
                        [@ EXCEPT !.pc = "returned", !.out = out, !.dur = duration,
                                  !.inflight = InFlight(c),
                                  !.resp = NilValue, !.err = PanicError(out.val),
                                  !.entries = Append(@, PanicEntry(cfg, calls[c].md,
                                                                   out.val, duration))]]
                 /\ UNCHANGED server
            ELSE /\ calls' = [calls EXCEPT ![c] =
                        [@ EXCEPT !.pc = "crashed", !.out = out, !.dur = duration,
                                  !.inflight = InFlight(c)]]
                 /\ server' = "crashed"
       ELSE /\ calls' = [calls EXCEPT ![c] =
                   [@ EXCEPT !.pc = "returned", !.out = out, !.dur = duration,
                             !.inflight = InFlight(c),
                             !.resp = Results(cfg, out).resp,
                             !.err = Results(cfg, out).err,
                             !.entries = Append(@, CompletionEntry(cfg, calls[c].md,
                                                     out.resp, out.err, duration))]]
            /\ UNCHANGED server
    /\ UNCHANGED <<cfg, san, glog>>
    /\ UNCHANGED restIcpt

\* metadata keys as they may be handed to sanitizeMetadata, and their values
MDKeys ==
    { <<"A", "u", "t", "h", "o", "r", "i", "z", "a", "t", "i", "o", "n">>,
      <<"x", "-", "i", "d">>,
      <<"C", "O", "O", "K", "I", "E">>,
      <<"x", "-", "a", "p", "i", "-", "k", "e", "y">>,
      <<"a", "g", "e", "n", "t">> }

MDValues(key) == IF Len(key) > 5 THEN <<"v1", "v2">> ELSE <<"v1">>

\* the metadata maps: every set of keys, each key with its values
MDs == {[key \in keys |-> MDValues(key)] : keys \in SUBSET MDKeys}

\* the sensitive field lists sanitizeMetadata is called with: those of the
\* configurations, none, and a list holding the empty string
FieldLists ==
    {MainSensitiveFields, DefaultSensitiveFields, TokenSensitiveFields, <<>>, << <<>> >>}

SanIdle == [pc |-> "idle", md |-> <<>>, fields |-> <<>>, out |-> <<>>]

\* sanitizeMetadata(md, sensitiveFields) runs and returns its map
SanitizeMetadataCall ==
    /\ san.pc = "called"
    /\ san' = [san EXCEPT !.pc = "returned",
                          !.out = sanitizeMetadata(san.md, san.fields)]
    /\ UNCHANGED <<cfg, calls, server, glog>>
    /\ UNCHANGED restIcpt

(***************************************************************************)
(* Global logger: InitLogger, GetLogger and createLogger of                *)
(* shared/logger.go                                                        *)
(***************************************************************************)
\* a nil *zap.Logger in the package variable
NilZap == [id |-> 0, config |-> "nil"]

\* the LoggerConfig values InitLogger is called with by the program, and the
\* DefaultLoggerConfig GetLogger passes
LoggerConfigs == {"main", "other"}
DefaultLoggerConfig == "default"

\* the package variables before any call, and the goroutines idle
GlobalLoggerIdle ==
    [logger |-> NilZap, loggerOnce |-> "new", globals |-> NilZap, created |-> 0,
     returned |-> {}, first |-> "none",
     procs |-> [p \in Callers |-> [pc |-> "idle", op |-> "none", config |-> "none", n |-> 0]]]

\* a goroutine calls InitLogger(config) or GetLogger()
LoggerInvoke(p, o, config) ==
    /\ glog.procs[p].pc = "idle"
    /\ glog.procs[p].n < MaxLoggerCalls
    /\ glog' = [glog EXCEPT !.procs[p] =
                   [@ EXCEPT !.pc = IF o = "GetLogger" THEN "read" ELSE "once",
                             !.op = o,
                             !.config = IF o = "GetLogger" THEN "none" ELSE config]]
    /\ UNCHANGED <<cfg, calls, server, san>>
    /\ UNCHANGED restIcpt

\* GetLogger: if logger == nil, InitLogger(DefaultLoggerConfig()). The read
\* is not synchronised with the write inside the Once: it sees the pointer
\* written or still nil.
GetLoggerRead(p) ==
    /\ glog.procs[p].pc = "read"
    /\ \E seen \in {NilZap, glog.logger} :
          glog' = [glog EXCEPT !.procs[p] =
                     IF seen = NilZap
                     THEN [@ EXCEPT !.pc = "once", !.config = DefaultLoggerConfig]
                     ELSE [@ EXCEPT !.pc = "return"]]
    /\ UNCHANGED <<cfg, calls, server, san>>
    /\ UNCHANGED restIcpt

\* a sync.Once that forgets it has run
OnceNeverDone(once) == FALSE

\* sync.Once: the function has run and returned
OnceDone(once) == once = "done"

\* InitLogger: loggerOnce.Do(...). The first caller runs the function; a
\* caller that arrives while it runs waits for it; later callers pass.
LoggerOnceDo(p) ==
    /\ glog.procs[p].pc = "once"
    /\ IF OnceDone(glog.loggerOnce)
       THEN glog' = [glog EXCEPT !.procs[p].pc = "replace"]
       ELSE /\ glog.loggerOnce # "running"
            /\ glog' = [glog EXCEPT !.loggerOnce = "running", !.procs[p].pc = "create"]
    /\ UNCHANGED <<cfg, calls, server, san>>
    /\ UNCHANGED restIcpt

\* inside the Once: logger, err = createLogger(config). createLogger builds
\* a logger from the configuration and always returns a nil error.
CreateLogger(p) ==
    /\ glog.procs[p].pc = "create"
    /\ glog' = [glog EXCEPT !.logger = [id |-> glog.created + 1, config |-> glog.procs[p].config],
                            !.created = @ + 1,
                            !.first = IF @ = "none" THEN glog.procs[p].config ELSE @,
                            !.loggerOnce = "done",
                            !.procs[p].pc = "replace"]
    /\ UNCHANGED <<cfg, calls, server, san>>
    /\ UNCHANGED restIcpt

\* InitLogger: err is nil, zap.ReplaceGlobals(logger), return. GetLogger
\* goes on to its return statement.
LoggerReplaceGlobals(p) ==
    /\ glog.procs[p].pc = "replace"
    /\ glog' = [glog EXCEPT !.globals = glog.logger,
                            !.procs[p] =
                                IF @.op = "GetLogger" THEN [@ EXCEPT !.pc = "return"]
                                ELSE [@ EXCEPT !.pc = "idle", !.n = @ + 1]]
    /\ UNCHANGED <<cfg, calls, server, san>>
    /\ UNCHANGED restIcpt

\* GetLogger: return logger
GetLoggerReturn(p) ==
    /\ glog.procs[p].pc = "return"
    /\ glog' = [glog EXCEPT !.returned = @ \cup {glog.logger},
                            !.procs[p] = [@ EXCEPT !.pc = "idle", !.n = @ + 1]]
    /\ UNCHANGED <<cfg, calls, server, san>>
    /\ UNCHANGED restIcpt

(***************************************************************************)
(* Bootstrap: main, setupGracefulShutdown, initializeDatabase and          *)
(* setupGRPCServer of the identity service                                 *)
(***************************************************************************)
\* const maxRetries of initializeDatabase
maxRetries == 3
\* const retryDelay of initializeDatabase, in seconds
retryDelay == 2

\* the models MigrateWithContext migrates, in its order
Models == <<"Permission", "Role", "User">>

\* what the datastore answers to one AutoMigrate
MigrateOutcomes == {"ok", "err"}

\* initializeLogger and net.Listen either succeed or fail
StepOutcomes == {"ok", "err"}

\* how Serve ends while the server is not stopped: it keeps serving or the
\* listener fails
ServeOutcomes == {"ok", "err"}

NoError == [kind |-> "none", attempts |-> 0, cause |-> NoErr]

\* fmt.Errorf("...: %w", ...) of initializeDatabase: what failed, the attempt
\* count where the message has one, and the wrapped cause
Errorf(kind, attempts, cause) == [kind |-> kind, attempts |-> attempts, cause |-> cause]

\* ConnWithContext when no other goroutine uses the Database: the stored
\* handle, or createConnection
ConnWithContext(d, pl, outcome) ==
    IF d.connection # NilConn
    THEN [db |-> d, pools |-> pl, handle |-> d.connection, err |-> NoErr, dialed |-> FALSE]
    ELSE createConnection(d, pl, outcome)

\* HealthCheck: ConnWithContext, db.DB(), PingContext
HealthCheck(d, pl, outcome, health) ==
    LET r == ConnWithContext(d, pl, outcome)
    IN IF r.err # NoErr THEN r
       ELSE IF health = "dbFail" THEN [r EXCEPT !.err = "no sql connection"]
       ELSE IF health = "pingFail" THEN [r EXCEPT !.err = "ping failed"]
       ELSE r

\* the history of dials and returned handles after one ConnWithContext
Dialed(h, r) ==
    [h EXCEPT !.dials = IF r.dialed THEN @ + 1 ELSE @,
              !.fails = IF r.err # NoErr THEN @ + 1 ELSE @,
              !.handles = IF r.err = NoErr THEN @ \cup {r.handle} ELSE @,
              !.passed = IF r.err = NoErr /\ r.dialed THEN @ \cup {r.handle} ELSE @]

\* the environment and the state of the process when main is entered
BootStart(dsn) ==
    [pc |-> "main", dsn |-> dsn, signal |-> FALSE, deadline |-> FALSE,
     attempt |-> 0, lastErr |-> NoErr, tried |-> 0, failed |-> 0,
     causes |-> <<>>, sleeps |-> 0, slept |-> 0, err |-> NoError, migrated |-> <<>>,
     serve |-> "none", stopped |-> FALSE, exit |-> "running", events |-> <<>>,
     migrateFailed |-> 0]

\* the process before main runs, as the specifications of the single
\* subsystems hold it
BootIdle == BootStart("host=db")

\* logger.Fatal and the os.Exit(1) after a logger failure: the process ends at
\* once, no deferred call runs
Exit1(b, why) == [b EXCEPT !.pc = "exited", !.exit = why]

\* setupGracefulShutdown's goroutine: the signal arrives, cancel() is called
BootSignal ==
    /\ boot.pc \notin {"main", "exited"}
    /\ ~boot.signal
    /\ boot' = [boot EXCEPT !.signal = TRUE]
    /\ UNCHANGED <<dbVars, seedVars, icptVars>>

\* the 30 seconds of dbCtx pass while initializeDatabase runs
BootDeadline ==
    /\ boot.pc \in {"loop", "connect", "health", "failed", "sleep",
                    "migrate", "automigrate", "seed", "seeding"}
    /\ ~boot.deadline
    /\ boot' = [boot EXCEPT !.deadline = TRUE]
    /\ UNCHANGED <<dbVars, seedVars, icptVars>>

\* main: initializeLogger, LogStartup, setupGracefulShutdown
BootMain(outcome) ==
    /\ boot.pc = "main"
    /\ boot' = IF outcome = "err" THEN Exit1(boot, "logger")
               ELSE [boot EXCEPT !.pc = "init"]
    /\ UNCHANGED <<dbVars, seedVars, icptVars>>

\* initializeDatabase: the IDENTITY_DSN check, NewDBWithConfig, dbCtx
BootInit ==
    /\ boot.pc = "init"
    /\ IF EmptyDSN(boot.dsn)
       THEN /\ boot' = [boot EXCEPT !.pc = "fatal", !.err = Errorf("dsn", 0, NoErr)]
            /\ UNCHANGED db
       ELSE /\ boot' = [boot EXCEPT !.pc = "loop", !.attempt = 1]
            /\ db' = NewDBWithConfig(boot.dsn)
    /\ UNCHANGED <<mu, pools, pc, op, ret, hist>>
    /\ UNCHANGED <<seedVars, icptVars>>

\* the select at the head of the loop with its Done case left out
SelectNeverDone == FALSE

\* select { case <-dbCtx.Done(): ... default: }
SelectDone == CtxDone

\* the head of the retry loop: attempt <= maxRetries, then the select on dbCtx.Done()
BootLoop ==
    /\ boot.pc = "loop"
    /\ boot' = IF boot.attempt > maxRetries THEN [boot EXCEPT !.pc = "migrate"]
               ELSE IF SelectDone
               THEN [boot EXCEPT !.pc = "fatal", !.err = Errorf("timeout", 0, "context done")]
               ELSE [boot EXCEPT !.pc = "connect"]
    /\ UNCHANGED <<dbVars, seedVars, icptVars>>

\* one attempt: db.ConnWithContext(dbCtx)
BootConnect(outcome) ==
    /\ boot.pc = "connect"
    /\ CtxAllows(outcome)
    /\ LET r == ConnWithContext(db, pools, outcome)
       IN /\ db' = r.db
          /\ pools' = r.pools
          /\ hist' = Dialed(hist, r)
          /\ boot' = IF r.err = NoErr
                     THEN [boot EXCEPT !.pc = "health", !.tried = @ + 1]
                     ELSE [boot EXCEPT !.pc = "failed", !.tried = @ + 1,
                                       !.failed = @ + 1, !.lastErr = r.err,
                                       !.causes = Append(@, r.err)]
    /\ UNCHANGED <<mu, pc, op, ret>>
    /\ UNCHANGED <<seedVars, icptVars>>

\* the attempt goes on: db.HealthCheck(dbCtx), on success db.Stats() and break
BootHealthCheck(outcome, health) ==
    /\ boot.pc = "health"
    /\ CtxAllows(health)
    /\ LET r == HealthCheck(db, pools, outcome, health)
       IN /\ db' = r.db
          /\ pools' = r.pools
          /\ hist' = Dialed(hist, r)
          /\ boot' = IF r.err = NoErr
                     THEN [boot EXCEPT !.pc = "migrate",
                                       !.events = Append(@, "connected")]
                     ELSE [boot EXCEPT !.pc = "failed", !.failed = @ + 1,
                                       !.lastErr = r.err,
                                       !.causes = Append(@, r.err)]
    /\ UNCHANGED <<mu, pc, op, ret>>
    /\ UNCHANGED <<seedVars, icptVars>>

\* the test after a failed attempt, never taking it for the last one
LastAttemptNever(attempt) == FALSE

\* the test after a failed attempt, giving up one attempt early
LastAttemptEarly(attempt) == attempt >= maxRetries - 1

\* if attempt == maxRetries
LastAttempt(attempt) == attempt = maxRetries

\* after a failed attempt: the last one returns the error, the others warn
BootFailed ==
    /\ boot.pc = "failed"
    /\ boot' = IF LastAttempt(boot.attempt)
               THEN [boot EXCEPT !.pc = "fatal",
                                 !.err = Errorf("attempts", maxRetries, boot.lastErr)]
               ELSE [boot EXCEPT !.pc = "sleep"]
    /\ UNCHANGED <<dbVars, seedVars, icptVars>>

\* time.Sleep(retryDelay), then attempt++
BootSleep ==
    /\ boot.pc = "sleep"
    /\ boot' = [boot EXCEPT !.pc = "loop", !.attempt = @ + 1,
                            !.sleeps = @ + 1, !.slept = @ + retryDelay]
    /\ UNCHANGED <<dbVars, seedVars, icptVars>>

\* MigrateWithContext: ConnWithContext
BootMigrate(outcome) ==
    /\ boot.pc = "migrate"
    /\ CtxAllows(outcome)
    /\ LET r == ConnWithContext(db, pools, outcome)
       IN /\ db' = r.db
          /\ pools' = r.pools
          /\ hist' = Dialed(hist, r)
          /\ boot' = IF r.err = NoErr
                     THEN [boot EXCEPT !.pc = "automigrate"]
                     ELSE [boot EXCEPT !.pc = "fatal", !.err = Errorf("migrate", 0, r.err)]
    /\ UNCHANGED <<mu, pc, op, ret>>
    /\ UNCHANGED <<seedVars, icptVars>>

\* the test of AutoMigrate's result, taking every result for success
MigrateFailedIgnored(outcome) == FALSE

\* if err := db.WithContext(ctx).AutoMigrate(model); err != nil
MigrateFailed(outcome) == outcome = "err"

\* MigrateWithContext: one turn of the loop over the models
BootAutoMigrate(outcome) ==
    /\ boot.pc = "automigrate"
    /\ CtxAllows(outcome)
    /\ LET k == Len(boot.migrated) + 1
           failed == IF outcome = "err" THEN 1 ELSE 0
       IN boot' = IF MigrateFailed(outcome)
                  THEN [boot EXCEPT !.pc = "fatal", !.migrateFailed = @ + failed,
                                    !.err = Errorf("migrate", 0, Models[k])]
                  ELSE IF k = Len(Models)
                  THEN [boot EXCEPT !.pc = "seed", !.migrated = Append(@, Models[k]),
                                    !.migrateFailed = @ + failed,
                                    !.events = Append(@, "migrated")]
                  ELSE [boot EXCEPT !.migrated = Append(@, Models[k]),
                                    !.migrateFailed = @ + failed]
    /\ UNCHANGED <<dbVars, seedVars, icptVars>>

\* SeederWithContext: ConnWithContext, then the transaction begins
BootSeed(outcome) ==
    /\ boot.pc = "seed"
    /\ CtxAllows(outcome)
    /\ LET r == ConnWithContext(db, pools, outcome)
       IN /\ db' = r.db
          /\ pools' = r.pools
          /\ hist' = Dialed(hist, r)
          /\ IF r.err = NoErr
             THEN /\ Transaction(CodeSeedSpec)
                  /\ boot' = [boot EXCEPT !.pc = "seeding"]
             ELSE /\ boot' = [boot EXCEPT !.pc = "fatal", !.err = Errorf("seed", 0, r.err)]
                  /\ UNCHANGED seedVars
    /\ UNCHANGED <<mu, pc, op, ret>>
    /\ UNCHANGED icptVars

\* the test of the seeder's result, taking every result for success
SeedFailedIgnored(sd) == FALSE

\* if err := db.SeederWithContext(dbCtx); err != nil
SeedFailed(sd) == sd.err # NoErr

\* SeederWithContext has returned: initializeDatabase returns the Database or
\* the wrapped error
BootSeeded ==
    /\ boot.pc = "seeding"
    /\ seed.pc = "done"
    /\ seed' = [seed EXCEPT !.pc = "idle"]
    /\ boot' = IF ~SeedFailed(seed)
               THEN [boot EXCEPT !.pc = "setup", !.events = Append(@, "seeded")]
               ELSE [boot EXCEPT !.pc = "fatal", !.err = Errorf("seed", 0, seed.err)]
    /\ UNCHANGED <<store, ids, tx, last>>
    /\ UNCHANGED <<dbVars, icptVars>>

\* main: initializeDatabase returned an error, logger.Fatal
BootFatal ==
    /\ boot.pc = "fatal"
    /\ boot' = Exit1(boot, "fatal")
    /\ UNCHANGED <<dbVars, seedVars, icptVars>>

\* main: the deferred Close is registered, setupGRPCServer listens, the
\* goroutine that will call Serve is started
BootSetup(outcome) ==
    /\ boot.pc = "setup"
    /\ boot' = IF outcome = "err" THEN Exit1(boot, "fatal")
               ELSE [boot EXCEPT !.pc = "wait", !.serve = "spawned"]
    /\ UNCHANGED <<dbVars, seedVars, icptVars>>

\* the goroutine: grpcServer.Serve(listener).  On a server that was stopped
\* already, or when the listener fails, Serve returns an error: logger.Fatal
BootServe(outcome) ==
    /\ boot.pc # "exited"
    /\ boot.serve = "spawned"
    /\ boot' = IF boot.stopped \/ outcome = "err" THEN Exit1(boot, "fatal")
               ELSE [boot EXCEPT !.serve = "serving", !.events = Append(@, "serving")]
    /\ UNCHANGED <<dbVars, seedVars, icptVars>>

\* main: <-ctx.Done() returns once the signal has come
BootWait ==
    /\ boot.pc = "wait"
    /\ boot.signal
    /\ boot' = [boot EXCEPT !.pc = "stopping"]
    /\ UNCHANGED <<dbVars, seedVars, icptVars>>

\* main: grpcServer.GracefulStop(); a running Serve returns nil
BootGracefulStop ==
    /\ boot.pc = "stopping"
    /\ boot' = [boot EXCEPT !.pc = "closing", !.stopped = TRUE,
                            !.serve = IF @ = "serving" THEN "returned" ELSE @,
                            !.events = Append(@, "stopped")]
    /\ UNCHANGED <<dbVars, seedVars, icptVars>>

\* main returns: the deferred db.Close() runs, then the process ends
BootClose(outcome) ==
    /\ boot.pc = "closing"
    /\ LET r == close(db, pools, outcome)
       IN /\ db' = r.db
          /\ pools' = r.pools
          /\ hist' = [hist EXCEPT !.closes = IF r.closed THEN @ + 1 ELSE @,
                                  !.closeCalls = @ + 1]
          /\ boot' = [boot EXCEPT !.pc = "exited", !.exit = "returned",
                                  !.events = Append(@, IF r.closed THEN "closed" ELSE "close failed")]
    /\ UNCHANGED <<mu, pc, op, ret>>
    /\ UNCHANGED <<seedVars, icptVars>>

(***************************************************************************)
(* Specifications                                                          *)
(***************************************************************************)
InitDbVars ==
    /\ mu = [readers |-> 0, writer |-> 0]
    /\ pools = [live |-> {}, closed |-> {}, next |-> 1]
    /\ pc = [p \in Callers |-> "idle"]
    /\ op = [p \in Callers |-> "none"]
    /\ ret = [p \in Callers |-> [handle |-> NilConn, err |-> NoErr]]
    /\ hist = [calls |-> 0, dials |-> 0, fails |-> 0, closes |-> 0,
               closeCalls |-> 0, handles |-> {}, pinged |-> {}, passed |-> {},
               released |-> {}, failedOn |-> {}, before |-> [p \in Callers |-> {}]]

InitSeedVars ==
    /\ store = EmptyRows
    /\ ids = [perm |-> 1, role |-> 1]
    /\ tx = EmptyRows
    /\ seed = SeedIdle
    /\ last = [valid |-> FALSE, spec |-> CodeSeedSpec, rows |-> EmptyRows]

InitIcptVars(configs) ==
    /\ cfg \in configs
    /\ calls = [c \in CallIds |-> NewCall]
    /\ server = "serving"
    /\ san = SanIdle
    /\ glog = GlobalLoggerIdle

InitDb ==
    /\ db \in {NewDBWithConfig(dsn) : dsn \in DSNs}
    /\ InitDbVars
    /\ InitSeedVars
    /\ InitIcptVars({MainConfig})
    /\ boot = BootIdle

NextDb ==
    \E p \in Callers :
        \/ Invoke(p, "Conn")
        \/ Invoke(p, "Close")
        \/ Invoke(p, "HealthCheck")
        \/ Invoke(p, "Stats")
        \/ \E health \in HealthOutcomes : HealthPing(p, health)
        \/ StatsRLock(p)
        \/ \E outcome \in StatsOutcomes : StatsBody(p, outcome)
        \/ ConnRLock(p)
        \/ ConnFastPath(p)
        \/ ConnLock(p)
        \/ ConnSlowPath(p)
        \/ ConnCreate(p)
        \/ CloseLock(p)
        \/ CloseBody(p)
        \/ Return(p)

SpecDb == InitDb /\ [][NextDb]_vars

\* the handlers of UserService running concurrently on the shared Database
InitUsers ==
    /\ db = NewDBWithConfig("host=db")
    /\ boot = BootIdle
    /\ InitDbVars
    /\ InitSeedVars
    /\ InitIcptVars({MainConfig})

NextUsers ==
    \E p \in Callers :
        \/ Invoke(p, "Request")
        \/ ConnRLock(p)
        \/ ConnFastPath(p)
        \/ ConnLock(p)
        \/ ConnSlowPath(p)
        \/ ConnCreate(p)
        \/ \E outcome \in QueryOutcomes : Query(p, outcome)
        \/ CloseLock(p)
        \/ CloseBody(p)
        \/ Return(p)

SpecUsers == InitUsers /\ [][NextUsers]_vars

InitSeed ==
    /\ db = NewDBWithConfig("host=db")
    /\ InitDbVars
    /\ InitSeedVars
    /\ InitIcptVars({MainConfig})
    /\ boot = BootIdle

NextSeed ==
    \/ \E spec \in SeedSpecs : SeedBegin(spec)
    \/ \E outcome \in SeedOutcomes : SeedPermission(outcome)
    \/ SeedPermissionsDone
    \/ \E roleName \in {"member", "admin"}, outcome \in SeedOutcomes : SeedRole(roleName, outcome)
    \/ \E outcome \in SeedOutcomes : SeedFind(outcome)
    \/ \E outcome \in SeedOutcomes : SeedClear(outcome)
    \/ \E outcome \in SeedOutcomes : SeedAppend(outcome)
    \/ \E outcome \in SeedOutcomes : SeedCommit(outcome)
    \/ SeedRollback
    \/ SeedReturn
    \/ \E failAt \in 0..Len(LegacyRoles) : LegacySeeder(failAt)
    \/ UserCreate

SpecSeed == InitSeed /\ [][NextSeed]_vars

InitIcpt ==
    /\ db = NewDBWithConfig("host=db")
    /\ InitDbVars
    /\ InitSeedVars
    /\ InitIcptVars(Configs)
    /\ boot = BootIdle

NextIcpt ==
    \/ \E c \in CallIds, in \in Inputs : IcptStart(c, in)
    \/ \E c \in CallIds, out \in AllOutcomes, duration \in Durations :
          IcptFinish(c, out, duration)

SpecIcpt == InitIcpt /\ [][NextIcpt]_vars

\* the interceptor built from the configuration of setupGRPCServer, and
\* from one whose Logger field was left unset
InitLogger ==
    /\ db = NewDBWithConfig("host=db")
    /\ boot = BootIdle
    /\ InitDbVars
    /\ InitSeedVars
    /\ InitIcptVars({MainConfig, NilLoggerConfig})

SpecLogger == InitLogger /\ [][NextIcpt]_vars

\* sanitizeMetadata called with each metadata map and each field list
InitSanitize ==
    /\ db = NewDBWithConfig("host=db")
    /\ boot = BootIdle
    /\ InitDbVars
    /\ InitSeedVars
    /\ cfg = MainConfig
    /\ calls = [c \in CallIds |-> NewCall]
    /\ server = "serving"
    /\ san \in {[pc |-> "called", md |-> md, fields |-> fields, out |-> <<>>] :
                   md \in MDs, fields \in FieldLists}
    /\ glog = GlobalLoggerIdle

NextSanitize == SanitizeMetadataCall

SpecSanitize == InitSanitize /\ [][NextSanitize]_vars

\* goroutines calling InitLogger and GetLogger in any order
InitGlobalLogger ==
    /\ db = NewDBWithConfig("host=db")
    /\ boot = BootIdle
    /\ InitDbVars
    /\ InitSeedVars
    /\ InitIcptVars({MainConfig})

NextGlobalLogger ==
    \/ \E p \in Callers, config \in LoggerConfigs : LoggerInvoke(p, "InitLogger", config)
    \/ \E p \in Callers : LoggerInvoke(p, "GetLogger", "none")
    \/ \E p \in Callers : GetLoggerRead(p)
    \/ \E p \in Callers : LoggerOnceDo(p)
    \/ \E p \in Callers : CreateLogger(p)
    \/ \E p \in Callers : LoggerReplaceGlobals(p)
    \/ \E p \in Callers : GetLoggerReturn(p)

SpecGlobalLogger == InitGlobalLogger /\ [][NextGlobalLogger]_vars

InitBoot ==
    /\ boot \in {BootStart(dsn) : dsn \in DSNs}
    /\ db = NewDBWithConfig(boot.dsn)
    /\ InitDbVars
    /\ InitSeedVars
    /\ InitIcptVars({MainConfig})

NextBoot ==
    \/ \E outcome \in StepOutcomes : BootMain(outcome)
    \/ BootSignal
    \/ BootDeadline
    \/ BootInit
    \/ BootLoop
    \/ \E outcome \in ConnOutcomes : BootConnect(outcome)
    \/ \E outcome \in ConnOutcomes, health \in HealthOutcomes : BootHealthCheck(outcome, health)
    \/ BootFailed
    \/ BootSleep
    \/ \E outcome \in ConnOutcomes : BootMigrate(outcome)
    \/ \E outcome \in MigrateOutcomes : BootAutoMigrate(outcome)
    \/ \E outcome \in ConnOutcomes : BootSeed(outcome)
    \/ \E outcome \in SeedOutcomes : SeedPermission(outcome)
    \/ SeedPermissionsDone
    \/ \E roleName \in {"member", "admin"}, outcome \in SeedOutcomes : SeedRole(roleName, outcome)
    \/ \E outcome \in SeedOutcomes : SeedFind(outcome)
    \/ \E outcome \in SeedOutcomes : SeedClear(outcome)
    \/ \E outcome \in SeedOutcomes : SeedAppend(outcome)
    \/ \E outcome \in SeedOutcomes : SeedCommit(outcome)
    \/ SeedRollback
    \/ BootSeeded
    \/ BootFatal
    \/ \E outcome \in StepOutcomes : BootSetup(outcome)
    \/ \E outcome \in ServeOutcomes : BootServe(outcome)
    \/ BootWait
    \/ BootGracefulStop
    \/ \E outcome \in CloseOutcomes : BootClose(outcome)

SpecBoot == InitBoot /\ [][NextBoot]_vars

\* the service and the users of a Database where IDENTITY_DSN is not set
InitDsn ==
    /\ boot = BootStart("")
    /\ db = NewDBWithConfig(boot.dsn)
    /\ InitDbVars
    /\ InitSeedVars
    /\ InitIcptVars({MainConfig})

NextDsn ==
    \/ NextDb
    \/ \E outcome \in StepOutcomes : BootMain(outcome)
    \/ BootSignal
    \/ BootInit
    \/ BootFatal

SpecDsn == InitDsn /\ [][NextDsn]_vars

(***************************************************************************)
(* C1: callers of ConnWithContext racing on a Database that holds no       *)
(* handle, with the datastore reachable (no createConnection failed) and   *)
(* no Close, cause at most one dial; as soon as one of them has returned   *)
(* exactly one dial has happened and every returned handle is that one     *)
(* stored connection.                                                      *)
(***************************************************************************)
C1_SingleDial ==
    (hist.closeCalls = 0 /\ hist.fails = 0) =>
        /\ hist.dials <= 1
        /\ Cardinality(hist.handles) <= 1
        /\ (hist.handles # {} =>
               /\ hist.dials = 1
               /\ hist.handles = {db.connection}
               /\ \A p \in Callers :
                    (pc[p] = "done" /\ op[p] = "Conn") => ret[p].handle = db.connection)

\* one caller has dialed and returned the handle, another has missed the fast
\* path and holds the write lock for its second check
C1_Witness ==
    /\ hist.closeCalls = 0 /\ hist.fails = 0
    /\ \E p, q \in Callers :
         /\ p # q
         /\ pc[p] = "done" /\ op[p] = "Conn" /\ ret[p].handle # NilConn
         /\ pc[q] = "locked" /\ op[q] = "Conn"
(***************************************************************************)
(* Helpers of the seeding claims                                           *)
(***************************************************************************)
Range(seq) == {seq[k] : k \in 1..Len(seq)}

\* the names of the permissions associated with the roles of that name
RoleHolds(rows, roleName) ==
    {q.name : q \in {x \in rows.perms :
                        \E r \in rows.roles : r.name = roleName /\ <<r.id, x.id>> \in rows.assoc}}

\* some role of the spec names a permission that no row carries, neither
\* before the run nor after seedPermissions has created the listed ones
UnresolvedIn(spec, rows) ==
    \E rn \in DOMAIN spec.roles : \E nm \in Range(spec.roles[rn]) :
        /\ nm \notin Range(spec.perms)
        /\ \A q \in rows.perms : q.name # nm

(***************************************************************************)
(* C2: a seed run that starts from the rows a committed run with the same  *)
(* permission list and role mapping left behind ends with exactly those    *)
(* rows: no permission or role row is added, no association changes.       *)
(***************************************************************************)
C2_SeedIdempotent ==
    (/\ seed.pc = "done"
     /\ seed.prev.valid
     /\ seed.prev.spec = seed.spec
     /\ seed.pre = seed.prev.rows) => store = seed.pre

\* the second run with the same spec has committed, roles hold permissions
C2_Witness ==
    /\ seed.pc = "done" /\ seed.err = NoErr
    /\ seed.prev.valid /\ seed.prev.spec = seed.spec /\ seed.pre = seed.prev.rows
    /\ store.assoc # {} /\ seed.runs = 2

(***************************************************************************)
(* C3 as claimed: after a seed run has committed, every role named in its  *)
(* mapping holds exactly the permission names the mapping gives it.        *)
(***************************************************************************)
C3_Converges ==
    (seed.pc = "done" /\ seed.err = NoErr) =>
        \A rn \in DOMAIN seed.spec.roles :
            RoleHolds(store, rn) = Range(seed.spec.roles[rn])

(***************************************************************************)
(* C4: a seed run that ends in an error, whatever step failed, leaves the  *)
(* permission rows, role rows and associations as they were when it began. *)
(***************************************************************************)
C4_SeedAtomic ==
    (seed.pc = "done" /\ seed.err # NoErr) => store = seed.pre

\* the append for a later role failed after an earlier role's associations
\* had been changed inside the transaction
C4_Witness ==
    /\ seed.pc = "done" /\ seed.err = "append"
    /\ seed.lost.assoc # seed.pre.assoc
    /\ seed.pre.assoc # {}
    /\ store = seed.pre

(***************************************************************************)
(* C5 as claimed: a run whose mapping names a permission that resolves to  *)
(* no record ends in an error and leaves every row and association as it   *)
(* was.                                                                    *)
(***************************************************************************)
C5_UnresolvedAborts ==
    (seed.pc = "done" /\ UnresolvedIn(seed.spec, seed.pre)) =>
        (seed.err # NoErr /\ store = seed.pre)

(***************************************************************************)
(* Helpers of the interceptor claims                                       *)
(***************************************************************************)
\* the indices of the entries a call has written
EntriesOf(c) == 1..Len(calls[c].entries)

Finished(c) == calls[c].pc \in {"returned", "crashed"}

\* the rendered request contains the substring "password"
HasPassword(req) == req.kind # "nil" /\ Contains(Render(req), <<"p", "a", "s", "s", "w", "o", "r", "d">>)

\* "password" is one of the configured sensitive fields
PasswordConfigured ==
    \E k \in 1..Len(cfg.SensitiveFields) : cfg.SensitiveFields[k] = <<"p", "a", "s", "s", "w", "o", "r", "d">>

\* the entry shows the payload: as a logged value or inside a logged text
Shows(e, payload) ==
    \/ e.request = payload
    \/ e.response = payload
    \/ e.panic = payload
    \/ Contains(e.message, Render(payload))
    \/ Contains(e.error.msg, Render(payload))

(***************************************************************************)
(* C6: a handler panic never takes the server down; the call returns to    *)
(* its caller with no response and an Internal error, its log holds an     *)
(* error entry with the panic value, a stack trace and the elapsed time,   *)
(* and a call started after a panicked call has returned gets exactly what *)
(* its own handler returned.                                               *)
(***************************************************************************)
C6_PanicContained ==
    /\ server = "serving"
    /\ \A c \in CallIds :
        (Finished(c) /\ calls[c].out.kind = "panic") =>
            /\ calls[c].pc = "returned"
            /\ ~calls[c].err.isNil /\ Code(calls[c].err) = "Internal"
            /\ calls[c].resp = NilValue
            /\ \E k \in EntriesOf(c) :
                 /\ calls[c].entries[k].level = "error"
                 /\ calls[c].entries[k].panic = calls[c].out.val
                 /\ calls[c].entries[k].stack # <<>>
                 /\ calls[c].entries[k].duration = calls[c].dur
    /\ \A c \in CallIds :
        (calls[c].afterPanic /\ Finished(c) /\ calls[c].out.kind # "panic") =>
            /\ calls[c].pc = "returned"
            /\ calls[c].resp = calls[c].out.resp
            /\ calls[c].err = calls[c].out.err

\* one call has panicked and returned; a call started after that has
\* returned its handler's response
C6_Witness ==
    \E c, d \in CallIds :
        /\ calls[c].pc = "returned" /\ calls[c].out.kind = "panic"
        /\ calls[d].afterPanic /\ calls[d].pc = "returned"
        /\ calls[d].out.kind = "ok" /\ calls[d].resp = RespUser

(***************************************************************************)
(* C7: when the handler does not panic, the caller gets the handler's      *)
(* response and error unchanged, whatever the flags, the redaction of the  *)
(* logged payloads and the duration.                                       *)
(***************************************************************************)
C7_PassThrough ==
    \A c \in CallIds :
        (Finished(c) /\ calls[c].out.kind # "panic") =>
            /\ calls[c].pc = "returned"
            /\ calls[c].resp = calls[c].out.resp
            /\ calls[c].err = calls[c].out.err

\* a slow call whose response was logged redacted returned the response
\* itself, and another call returned its handler's error
C7_Witness ==
    \E c, d \in CallIds :
        /\ calls[c].pc = "returned" /\ calls[c].out.kind = "ok"
        /\ calls[c].dur > cfg.SlowRequestThreshold
        /\ calls[c].entries[2].response = RedactedPayload
        /\ calls[c].resp = ReqStore
        /\ calls[d].pc = "returned" /\ calls[d].out.kind = "err"
        /\ calls[d].err = StatusErr("NotFound", <<"user not found">>)

(***************************************************************************)
(* C8 as claimed: with "password" among the sensitive fields, a request    *)
(* whose rendered text contains "password" is shown by no entry of its     *)
(* call, and the request entry, when requests are logged, carries the      *)
(* redaction marker in its place.                                          *)
(***************************************************************************)
C8_PasswordNeverLogged ==
    \A c \in CallIds :
        (calls[c].pc # "new" /\ HasPassword(calls[c].req) /\ PasswordConfigured) =>
            /\ \A k \in EntriesOf(c) : ~Shows(calls[c].entries[k], calls[c].req)
            /\ (cfg.LogRequests => calls[c].entries[1].request = RedactedPayload)

C10_BoundedRetry ==
    /\ boot.tried <= maxRetries
    /\ boot.failed <= maxRetries
    /\ boot.slept = boot.sleeps * retryDelay
    /\ boot.sleeps = (IF boot.pc \in {"failed", "sleep"} THEN boot.failed - 1
                      ELSE IF boot.failed = maxRetries THEN maxRetries - 1
                      ELSE boot.failed)
    /\ (boot.failed = maxRetries /\ boot.pc # "failed") =>
           /\ boot.err = Errorf("attempts", maxRetries, boot.causes[maxRetries])
           /\ boot.err.cause # NoErr
    /\ boot.err.kind = "attempts" =>
           /\ boot.failed = maxRetries
           /\ boot.pc \in {"fatal", "exited"}
           /\ boot.migrated = <<>>
           /\ seed.runs = 0 /\ store = EmptyRows
           /\ boot.serve = "none"
           /\ boot.events = <<>>

\* the third attempt has failed after two sleeps, for another cause than the
\* first, and the process has ended
C10_Witness ==
    /\ boot.pc = "exited"
    /\ boot.err.kind = "attempts"
    /\ boot.sleeps = maxRetries - 1
    /\ boot.causes[1] # boot.causes[maxRetries]
    /\ boot.err.cause = "ping failed"
\* the events of the bootstrap so far
Happened(e) == \E k \in 1..Len(boot.events) : boot.events[k] = e

(***************************************************************************)
(* C11: when the connect+health-check attempt fails on attempts 1 and 2    *)
(* and succeeds on attempt 3, the connection is established: the success   *)
(* on the last allowed attempt is honoured, no "attempts" error is         *)
(* returned, and exactly two delays, 2*retryDelay in total, have been      *)
(* slept before it.  The attempts error is only ever returned after        *)
(* maxRetries failures.                                                    *)
(***************************************************************************)
C11_LastAttemptHonoured ==
    /\ boot.err.kind = "attempts" => Len(boot.causes) = maxRetries
    /\ (Len(boot.causes) = maxRetries - 1 /\ Happened("connected")) =>
           /\ boot.attempt = maxRetries
           /\ boot.tried = maxRetries
           /\ boot.sleeps = maxRetries - 1
           /\ boot.slept >= 2 * retryDelay
           /\ boot.err.kind \notin {"attempts", "timeout", "dsn"}
           /\ hist.handles # {}

\* attempts 1 and 2 have failed, attempt 3 has just passed its health check
C11_Witness ==
    /\ Len(boot.causes) = maxRetries - 1
    /\ boot.events = <<"connected">>
    /\ boot.pc = "migrate"
    /\ boot.slept = 2 * retryDelay
    /\ db.connection # NilConn
(***************************************************************************)
(* C12: with an empty connection string ConnWithContext returns an error   *)
(* without opening a connection (no dial, no pool, no handle stored), and  *)
(* initializeDatabase returns its error before the retry loop: no attempt  *)
(* is made and no delay is slept.                                          *)
(***************************************************************************)
C12_EmptyDsnFailsFast ==
    /\ db.DSN = "" =>
           /\ hist.dials = 0
           /\ pools = [live |-> {}, closed |-> {}, next |-> 1]
           /\ db.connection = NilConn
           /\ hist.handles = {}
           /\ \A p \in Callers :
                  (pc[p] = "done" /\ op[p] = "Conn") =>
                      ret[p] = [handle |-> NilConn, err |-> "DSN empty"]
    /\ boot.dsn = "" =>
           /\ boot.tried = 0 /\ boot.attempt = 0
           /\ boot.sleeps = 0 /\ boot.slept = 0
           /\ boot.pc \in {"main", "init", "fatal", "exited"}
           /\ boot.pc = "fatal" => boot.err = Errorf("dsn", 0, NoErr)
           /\ boot.exit = "fatal" => boot.err.kind = "dsn"

\* a ConnWithContext call has returned the error and the bootstrap has ended
\* with its own, both without a dial
C12_Witness ==
    /\ db.DSN = "" /\ boot.dsn = ""
    /\ \E p \in Callers : pc[p] = "done" /\ op[p] = "Conn" /\ ret[p].err = "DSN empty"
    /\ hist.fails >= 2
    /\ boot.pc = "exited" /\ boot.err.kind = "dsn"
    /\ hist.dials = 0
(***************************************************************************)
(* C13: HealthCheck called on a Database that holds no handle (here: as    *)
(* the first operation ever started on it) creates no connection: no dial  *)
(* happens, the Database still holds no handle afterwards, and the call    *)
(* returns an error.                                                       *)
(***************************************************************************)
C13_HealthCheckNoDial ==
    \A p \in Callers :
        (hist.calls = 1 /\ op[p] = "HealthCheck" /\ pc[p] \in {"health", "done"}) =>
            /\ hist.dials = 0
            /\ db.connection = NilConn
            /\ pc[p] = "done" => ret[p].err # NoErr
\* the step in which caller p runs the body of Close
ClosesNow(p) == pc[p] = "closing" /\ pc'[p] = "done"

\* what one Close call does: on a Database without a handle it returns nil
\* and changes nothing; when it returns nil the Database holds no handle and
\* at most the pool of the handle it found has been shut
CloseStep ==
    \A p \in Callers :
        ClosesNow(p) =>
            /\ db.connection = NilConn =>
                   (ret'[p].err = NoErr /\ db' = db /\ pools' = pools
                    /\ hist'.closes = hist.closes)
            /\ ret'[p].err = NoErr =>
                   /\ db'.connection = NilConn
                   /\ pools'.closed = pools.closed \cup ({db.connection} \ {NilConn})
                   /\ pools'.live = pools.live \ {db.connection}

(***************************************************************************)
(* C14: Close is idempotent.  Close on a Database that holds no handle     *)
(* returns nil with no effect; after a Close that returned nil the         *)
(* Database holds no handle; further Close calls return nil without        *)
(* shutting a pool again: every pool is shut at most once, so the number   *)
(* of shuts equals the number of shut pools.                               *)
(***************************************************************************)
C14_CloseIdempotent ==
    /\ [](/\ hist.closes = Cardinality(pools.closed)
          /\ pools.live \cap pools.closed = {})
    /\ [][CloseStep]_vars

\* a pool was established and shut once, and a further Close has returned
\* nil on the Database that holds no handle
C14_Witness ==
    /\ hist.closes = 1 /\ hist.closeCalls >= 2
    /\ db.connection = NilConn
    /\ pools.closed # {}
    /\ \E p \in Callers : pc[p] = "done" /\ op[p] = "Close" /\ ret[p].err = NoErr
(***************************************************************************)
(* C15: at every moment at most one connection pool that was opened and    *)
(* not yet shut exists for the Database, whatever ConnWithContext calls    *)
(* (succeeding, or failing at open, pool configuration or ping) and Close  *)
(* calls have run.                                                         *)
(***************************************************************************)
C15_OneLivePool == Cardinality(pools.live) <= 1
\* the step in which caller p runs createConnection
CreatesNow(p) == pc[p] = "creating" /\ pc'[p] # "creating"

\* the causes createConnection wraps in its errors
ConnCauses == {"DSN empty", "open failed", "pool configuration failed", "ping failed"}

\* what one createConnection does: it returns nil and stores a newly opened
\* live pool as the handle, or it returns an error naming the cause and
\* leaves the Database without a handle
CreateStep ==
    \A p \in Callers :
        CreatesNow(p) =>
            /\ db.connection = NilConn
            /\ (ret'[p].err = NoErr) <=> (db'.connection # NilConn)
            /\ ret'[p].err = NoErr =>
                   /\ db'.connection \in pools'.live \ (pools.live \cup pools.closed)
                   /\ op[p] = "Conn" => ret'[p].handle = db'.connection
                   /\ hist'.dials = hist.dials + 1
            /\ ret'[p].err # NoErr =>
                   /\ ret'[p].err \in ConnCauses
                   /\ ret'[p].handle = NilConn
                   /\ db' = db
            /\ db.DSN # "" => hist'.dials = hist.dials + 1

(***************************************************************************)
(* C16: ConnWithContext stores a handle if and only if open, pool          *)
(* configuration and ping all succeed; when one of them fails it returns   *)
(* an error naming the cause and the Database still holds no handle, so    *)
(* the next call dials afresh.  A stored handle was returned by a          *)
(* createConnection that succeeded; a failure count never comes with a     *)
(* handle unless a later dial succeeded.                                   *)
(***************************************************************************)
C16_StoreIffAllSucceed ==
    /\ [][CreateStep]_vars
    /\ [](db.connection # NilConn => hist.dials > hist.fails)

\* a ConnWithContext failed after dialing, and a later one dialed afresh and
\* stored its handle
C16_Witness ==
    /\ hist.fails >= 1 /\ hist.dials >= 2
    /\ db.connection # NilConn
    /\ \E p \in Callers : pc[p] = "done" /\ op[p] = "Conn" /\ ret[p].handle = db.connection
\* a step of caller p inside a Stats call
StatsMoves(p) == op'[p] = "Stats" /\ pc'[p] # pc[p]

\* what the steps of a Stats call do: they leave the Database, the pools and
\* the dial count as they are, and the body returns an error exactly when no
\* handle is stored or the pool cannot be obtained, else the stored handle's
\* counters
StatsStep ==
    \A p \in Callers :
        StatsMoves(p) =>
            /\ db' = db /\ pools' = pools
            /\ hist'.dials = hist.dials /\ hist'.closes = hist.closes
            /\ (pc[p] = "stats" /\ db.connection = NilConn) =>
                   (ret'[p].err # NoErr /\ ret'[p].handle = NilConn)
            /\ (pc[p] = "stats" /\ ret'[p].err = NoErr) =>
                   (db.connection # NilConn /\ ret'[p].handle = db.connection)

(***************************************************************************)
(* C17: Stats is a read-only snapshot: it fails with an error when the     *)
(* Database holds no handle, never creates a connection, and never changes *)
(* the handle, the pools or the state of the Database.                     *)
(***************************************************************************)
C17_StatsReadOnly == [][StatsStep]_vars

\* a Stats call has returned its error on a Database that holds no handle,
\* and nothing was dialed
C17_Witness ==
    \E p \in Callers :
        /\ pc[p] = "done" /\ op[p] = "Stats" /\ ret[p].err = "no connection"
        /\ db.DSN # "" /\ db.connection = NilConn
        /\ hist.dials = 0
\* s is an initial part of t
IsPrefix(s, t) == Len(s) <= Len(t) /\ SubSeq(t, 1, Len(s)) = s

\* the order of a bootstrap and shutdown, with and without a server that
\* came to serve, and with either end of the deferred Close
BootOrders ==
    {<<"connected", "migrated", "seeded">> \o mid \o <<"stopped", end>> :
        mid \in {<<>>, <<"serving">>}, end \in {"closed", "close failed"}}

(***************************************************************************)
(* C18: the bootstrap is strictly ordered and fail-stop.  Migration starts *)
(* only after a connect and a health check have succeeded, seeding only    *)
(* after all models were migrated, and the server is started only after    *)
(* the seeding transaction has committed; when connect, migrate or seed    *)
(* fails the error ends startup (logger.Fatal) and the server is never     *)
(* started.                                                                *)
(***************************************************************************)
C18_OrderedFailStop ==
    /\ \E o \in BootOrders : IsPrefix(boot.events, o)
    /\ (boot.pc \in {"migrate", "automigrate"} \/ boot.migrated # <<>>) =>
           (Happened("connected") /\ hist.handles # {})
    /\ (boot.pc \in {"seed", "seeding"} \/ seed.runs > 0) =>
           (Happened("migrated") /\ boot.migrated = Models)
    /\ boot.serve # "none" =>
           /\ Happened("seeded")
           /\ seed.err = NoErr /\ last.valid /\ last.spec = CodeSeedSpec
           /\ store = last.rows /\ store # EmptyRows
           /\ boot.err = NoError
    /\ boot.err # NoError =>
           /\ boot.pc \in {"fatal", "exited"}
           /\ boot.exit \in {"running", "fatal"}
           /\ boot.serve = "none"
           /\ ~Happened("seeded") /\ ~Happened("serving")
    /\ (seed.pc = "idle" /\ seed.runs > 0 /\ seed.err # NoErr) => boot.err.kind = "seed"

\* the server serves after connect, migration and seeding, in that order,
\* the connect having succeeded on a retry
C18_Witness ==
    /\ boot.events = <<"connected", "migrated", "seeded", "serving">>
    /\ boot.serve = "serving"
    /\ Len(boot.causes) >= 1
    /\ store # EmptyRows
(***************************************************************************)
(* C19: after a successful bootstrap, once the shutdown signal has been    *)
(* received and the gRPC server has been gracefully stopped, Database.Close *)
(* is invoked on the deferred path before the process exits: the process   *)
(* never ends after GracefulStop without that Close call.                  *)
(***************************************************************************)
C19_CloseOnShutdown ==
    (boot.pc = "exited" /\ boot.signal /\ boot.stopped) =>
        /\ hist.closeCalls = 1
        /\ boot.exit = "returned"
        /\ boot.events[Len(boot.events)] \in {"closed", "close failed"}
\* the handler of call c has failed: it panicked or returned an error
Failed(c) ==
    /\ Finished(c)
    /\ calls[c].out.kind = "panic" \/ ~calls[c].out.err.isNil

\* the terminal log entry a call gets from its own handler's outcome
OwnTerminalEntry(c) ==
    IF calls[c].out.kind = "panic"
    THEN PanicEntry(cfg, calls[c].md, calls[c].out.val, calls[c].dur)
    ELSE CompletionEntry(cfg, calls[c].md, calls[c].out.resp, calls[c].out.err, calls[c].dur)

\* a step of one call leaves every other call as it is and the server serving
IsolatedStep ==
    \A c, d \in CallIds :
        (c # d /\ calls'[c] # calls[c]) => (calls'[d] = calls[d] /\ server' = "serving")

\* no call is stopped inside its handler, and a call that has returned holds
\* the response, the error and the terminal entry of its own outcome,
\* whatever its siblings did
OwnResults ==
    \A d \in CallIds :
        /\ calls[d].pc # "crashed"
        /\ calls[d].pc = "handler" => server = "serving"
        /\ calls[d].pc = "returned" =>
               /\ Len(calls[d].entries) = 2
               /\ calls[d].entries[2] = OwnTerminalEntry(d)
               /\ calls[d].out.kind # "panic" =>
                      (calls[d].resp = calls[d].out.resp /\ calls[d].err = calls[d].out.err)
               /\ calls[d].out.kind = "panic" =>
                      (calls[d].resp = NilValue /\ calls[d].err = PanicError(calls[d].out.val))

(***************************************************************************)
(* C20: failures are isolated per call.  With calls running concurrently   *)
(* through the same interceptor, a panic or an error in one call never     *)
(* changes the response, the error or the terminal log entry of a sibling, *)
(* and every sibling can still complete: the server keeps serving and each *)
(* returned call holds the results of its own handler.                     *)
(***************************************************************************)
C20_FailuresIsolated == []OwnResults /\ [][IsolatedStep]_vars

\* one call panicked while its sibling was inside its handler; the sibling
\* has then returned its handler's response with a success entry
C20_Witness ==
    \E c, d \in CallIds :
        /\ calls[c].pc = "returned" /\ calls[c].out.kind = "panic"
        /\ d \in calls[c].inflight
        /\ calls[d].pc = "returned" /\ calls[d].out.kind = "ok"
        /\ calls[d].resp = RespUser /\ calls[d].err.isNil
        /\ calls[d].entries[2].level # "error"
\* field occurs in key at some position, letters compared without regard to case
OccursIgnoringCase(key, field) ==
    \E i \in 1..(Len(key) - Len(field) + 1) :
        \A j \in 1..Len(field) : LowerChar(key[i + j - 1]) = LowerChar(field[j])

\* key contains one of the sensitive fields
SensitiveKey(key, fields) ==
    \E k \in 1..Len(fields) : OccursIgnoringCase(key, fields[k])

(***************************************************************************)
(* C21: sanitizeMetadata returns a map with exactly the keys of its input; *)
(* a key that contains, case-insensitively, one of the sensitive fields    *)
(* maps to the single redaction marker, every other key maps to its        *)
(* original values.                                                        *)
(***************************************************************************)
C21_SanitizeMetadata ==
    san.pc = "returned" =>
        /\ DOMAIN san.out = DOMAIN san.md
        /\ \A key \in DOMAIN san.md :
               san.out[key] = IF SensitiveKey(key, san.fields)
                              THEN <<"[REDACTED]">>
                              ELSE san.md[key]

\* a map with a capitalised sensitive key and a plain key has been sanitized
\* with the field list of setupGRPCServer
C21_Witness ==
    /\ san.pc = "returned"
    /\ san.fields = MainSensitiveFields
    /\ \E key \in DOMAIN san.md :
           /\ key # ToLower(key)
           /\ san.out[key] = <<"[REDACTED]">> /\ san.md[key] # san.out[key]
    /\ \E key \in DOMAIN san.md : san.out[key] = san.md[key]
(***************************************************************************)
(* C22: after a panic the caller gets no response and a status error of    *)
(* code Internal whose message does not contain the stack trace; the stack *)
(* trace is on the "panicked" log entry of the call and nowhere in what    *)
(* the caller receives.                                                    *)
(***************************************************************************)
C22_NoStackToCaller ==
    \A c \in CallIds :
        (calls[c].pc = "returned" /\ calls[c].out.kind = "panic") =>
            /\ calls[c].resp = NilValue
            /\ calls[c].err.isStatus /\ Code(calls[c].err) = "Internal"
            /\ ~Contains(Message(calls[c].err), StackTrace)
            /\ \E k \in EntriesOf(c) :
                   /\ calls[c].entries[k].msg = "gRPC method panicked"
                   /\ calls[c].entries[k].stack = StackTrace

\* a call whose handler panicked has returned its Internal error, the stack
\* being on its second log entry
C22_Witness ==
    \E c \in CallIds :
        /\ calls[c].pc = "returned" /\ calls[c].out.kind = "panic"
        /\ calls[c].out.val = Str(<<"b", "o", "o", "m">>)
        /\ Code(calls[c].err) = "Internal"
        /\ calls[c].entries[2].stack = StackTrace
(***************************************************************************)
(* C23: an interceptor built from a non-nil InterceptorConfig whose Logger *)
(* field is unset falls back to the global logger and handles calls        *)
(* normally: every call that was started is inside its handler or has      *)
(* returned, with its "request received" entry written, and the server     *)
(* keeps serving.                                                          *)
(***************************************************************************)
C23_NilLoggerDefaults ==
    cfg.Logger = NilLogger =>
        /\ server = "serving"
        /\ \A c \in CallIds :
               calls[c].pc # "new" =>
                   /\ calls[c].pc \in {"handler", "returned"}
                   /\ Len(calls[c].entries) >= 1
(***************************************************************************)
(* C24: while a request handler is using the handle it obtained from       *)
(* ConnWithContext, no other request closes that handle: the pool of a     *)
(* handle in use by a handler is open.                                     *)
(***************************************************************************)
C24_HandleStaysOpen ==
    \A p \in Callers :
        (op[p] = "Request" /\ pc[p] = "using") => ret[p].handle \in pools.live
\* the callers that are executing createConnection, and those inside Close
Creating == {p \in Callers : pc[p] = "creating"}
Closing == {p \in Callers : pc[p] = "closing"}

(***************************************************************************)
(* C25: connection creation is mutually exclusive.  At most one caller     *)
(* executes createConnection at a time, it holds the write lock and finds  *)
(* no handle stored, and no Close body or reader runs meanwhile; no caller *)
(* returns a handle that has not passed the ping of its createConnection.  *)
(* After a failed attempt the callers that were blocked attempt in turn,   *)
(* each under the write lock.                                              *)
(***************************************************************************)
C25_ExclusiveCreation ==
    /\ Cardinality(Creating) <= 1
    /\ Cardinality(Creating \cup Closing) <= 1
    /\ \A p \in Creating \cup Closing : mu.writer = p /\ mu.readers = 0
    /\ \A p \in Creating : db.connection = NilConn
    /\ mu.writer # 0 => mu.readers = 0
    /\ hist.handles \subseteq hist.passed
    /\ db.connection # NilConn => db.connection \in hist.passed
    /\ \A p \in Callers :
           (pc[p] = "done" /\ op[p] = "Conn" /\ ret[p].err = NoErr) =>
               ret[p].handle \in hist.passed

\* the first attempt has failed after its dial; a caller that was blocked on
\* the write lock meanwhile now makes its own attempt
C25_Witness ==
    \E p, q \in Callers :
        /\ p # q
        /\ pc[p] = "done" /\ op[p] = "Conn" /\ ret[p].err = "ping failed"
        /\ pc[q] = "creating" /\ op[q] = "Conn"
        /\ hist.dials = 1 /\ hist.calls = 2
\* the message, severity and slow flag the terminal entry of a call must
\* carry, from the handler's outcome and the measured duration alone
TerminalKind(c) ==
    IF calls[c].out.kind = "panic"
    THEN [msg |-> "gRPC method panicked", level |-> "error", slow |-> FALSE]
    ELSE IF ~calls[c].out.err.isNil
    THEN [msg |-> "gRPC method failed", level |-> "error", slow |-> FALSE]
    ELSE IF calls[c].dur > cfg.SlowRequestThreshold
    THEN [msg |-> "gRPC method completed (SLOW)", level |-> "warn", slow |-> TRUE]
    ELSE [msg |-> "gRPC method completed", level |-> cfg.LogLevel, slow |-> FALSE]

(***************************************************************************)
(* C26: every call goes Start -> (PanicRecovered) -> Complete and writes   *)
(* exactly one "request received" entry, then exactly one terminal entry:  *)
(* "failed" at error severity when the handler returned an error, else     *)
(* "completed (SLOW)" at warning severity with the slow flag when the      *)
(* duration is strictly greater than the threshold, else "completed" at    *)
(* the configured level; "panicked" at error severity, and no completion   *)
(* entry, when the handler panicked.                                       *)
(***************************************************************************)
C26_EntrySequence ==
    \A c \in CallIds :
        /\ calls[c].pc \in {"new", "handler", "returned"}
        /\ calls[c].pc = "new" => calls[c].entries = <<>>
        /\ calls[c].pc # "new" =>
               /\ Len(calls[c].entries) >= 1
               /\ calls[c].entries[1].msg = "gRPC request received"
               /\ calls[c].entries[1].level = cfg.LogLevel
        /\ calls[c].pc = "handler" => Len(calls[c].entries) = 1
        /\ calls[c].pc = "returned" =>
               /\ Len(calls[c].entries) = 2
               /\ calls[c].entries[2].msg = TerminalKind(c).msg
               /\ calls[c].entries[2].level = TerminalKind(c).level
               /\ calls[c].entries[2].slow = TerminalKind(c).slow
               /\ calls[c].entries[2].duration = calls[c].dur

\* a call whose handler succeeded in exactly the threshold has its plain
\* completion entry, and a call that took longer has the slow one
C26_Witness ==
    \E c, d \in CallIds :
        /\ calls[c].pc = "returned" /\ calls[c].out.kind = "ok"
        /\ calls[c].dur = cfg.SlowRequestThreshold
        /\ calls[c].entries[2].msg = "gRPC method completed"
        /\ calls[d].pc = "returned" /\ calls[d].out.kind = "ok"
        /\ calls[d].dur > cfg.SlowRequestThreshold
        /\ calls[d].entries[2].msg = "gRPC method completed (SLOW)"
(***************************************************************************)
(* C27: the handler is invoked exactly once per call, with the request and *)
(* the context the interceptor received, unmodified: also when the logged  *)
(* request was replaced by the redaction marker, and whatever the logging  *)
(* flags are.                                                              *)
(***************************************************************************)
C27_HandlerGetsOriginal ==
    \A c \in CallIds :
        /\ calls[c].pc = "new" => calls[c].handlerCalls = 0
        /\ calls[c].pc \in {"handler", "returned"} =>
               /\ calls[c].handlerCalls = 1
               /\ calls[c].passed = calls[c].req
               /\ calls[c].passedCtx = calls[c].md

\* the request entry of a returned call shows the redaction marker; its
\* handler was given the request itself
C27_Witness ==
    \E c \in CallIds :
        /\ calls[c].pc = "returned"
        /\ calls[c].entries[1].request = RedactedPayload
        /\ calls[c].req = ReqStore
        /\ calls[c].passed = ReqStore
        /\ calls[c].handlerCalls = 1
(***************************************************************************)
(* Helpers of the resolution claim                                         *)
(***************************************************************************)
\* every name of the list is the name of some permission row
Resolves(rows, permNames) ==
    \A k \in 1..Len(permNames) : \E q \in rows.perms : q.name = permNames[k]

(***************************************************************************)
(* C28 as claimed: the resolution check of createRoleWithPermissions lets  *)
(* the replacement of a role's associations proceed only when every name   *)
(* of the role's list is the name of a permission row, and reports "not    *)
(* all found" only when some name is the name of no row, whatever rows the *)
(* permission table held before, several rows of one name included.        *)
(***************************************************************************)
C28_ResolutionCheck ==
    /\ seed.pc \in {"clear", "append"} =>
           Resolves(tx, seed.spec.roles[seed.role.name])
    /\ (seed.pc = "rollback" /\ seed.err = "not all found") =>
           ~Resolves(tx, seed.spec.roles[seed.role.name])
(***************************************************************************)
(* Helpers of the one-record-per-name claim                                *)
(***************************************************************************)
\* the rows of that name
Named(rows, name) == {r \in rows : r.name = name}

\* at most one permission row and at most one role row per name
OnePerName(rows) ==
    /\ \A q \in rows.perms : Cardinality(Named(rows.perms, q.name)) = 1
    /\ \A r \in rows.roles : Cardinality(Named(rows.roles, r.name)) = 1

\* a step of the running seed creates rows only under names that no row of
\* the transaction carries
CreatesOnlyAbsent ==
    seed.pc \in {"perms", "roles"} =>
        /\ \A q \in tx'.perms \ tx.perms : Named(tx.perms, q.name) = {}
        /\ \A r \in tx'.roles \ tx.roles : Named(tx.roles, r.name) = {}

(***************************************************************************)
(* C29: seeding creates a permission or a role only when no row of that    *)
(* name exists. A run that starts from a datastore with at most one row    *)
(* per name ends with at most one row per name, and when it has committed  *)
(* with exactly one permission row per listed permission name and exactly  *)
(* one role row per role of the mapping; so it is after any number of      *)
(* runs.                                                                   *)
(***************************************************************************)
C29_OneRecordPerName ==
    /\ []((seed.pc = "done" /\ OnePerName(seed.pre)) =>
            /\ OnePerName(store)
            /\ seed.err = NoErr =>
                  /\ \A k \in 1..Len(seed.spec.perms) :
                         Cardinality(Named(store.perms, seed.spec.perms[k])) = 1
                  /\ \A rn \in DOMAIN seed.spec.roles :
                         Cardinality(Named(store.roles, rn)) = 1)
    /\ [][CreatesOnlyAbsent]_vars

\* the second run has committed over rows that held one of the two listed
\* permissions and one of the two roles: the missing ones were created, the
\* present ones were not created again
C29_Witness ==
    /\ seed.pc = "done" /\ seed.err = NoErr /\ seed.runs = 2
    /\ OnePerName(seed.pre)
    /\ Cardinality(seed.pre.perms) = 1 /\ Cardinality(seed.pre.roles) = 1
    /\ Cardinality(store.perms) = 2 /\ Cardinality(store.roles) = 2
    /\ seed.pre.perms \subseteq store.perms /\ seed.pre.roles \subseteq store.roles
(***************************************************************************)
(* Helpers of the association claim                                        *)
(***************************************************************************)
\* the ids of the permissions associated with the roles of that name
AssocOf(rows, roleName) ==
    {a[2] : a \in {x \in rows.assoc : \E r \in rows.roles : r.name = roleName /\ r.id = x[1]}}

\* the ids the run associates with the role: the rows its query fetches
NewSet(rows, roleName) == {q.id : q \in Find(rows.perms, seed.spec.roles[roleName])}

(***************************************************************************)
(* C30: what a seed run does to the associations stays inside its          *)
(* transaction. While the run is under way the committed rows are those it *)
(* started from; when it has ended, every role of the mapping shows the    *)
(* complete set it had before the run (and nothing else has changed) or    *)
(* every role shows the complete set the run gave it. A role whose         *)
(* associations were cleared and not yet added again is never committed.   *)
(***************************************************************************)
C30_ClearNeverObservable ==
    /\ seed.pc \in {"perms", "roles", "find", "clear", "append", "rollback"} =>
           store = seed.pre
    /\ seed.pc = "done" =>
           \/ store = seed.pre
           \/ \A rn \in DOMAIN seed.spec.roles :
                  AssocOf(store, rn) = NewSet(store, rn)

\* inside the transaction a role's associations are cleared and not yet
\* added again, while the committed rows show the role's old ones
C30_Witness ==
    /\ seed.pc = "append"
    /\ AssocOf(tx, seed.role.name) = {}
    /\ seed.found # {}
    /\ AssocOf(store, seed.role.name) # {}
    /\ AssocOf(store, seed.role.name) # NewSet(tx, seed.role.name)
(***************************************************************************)
(* Helpers of the frame claim                                              *)
(***************************************************************************)
\* the permission rows whose name the permission list lacks
UnnamedPerms(rows, spec) == {q \in rows.perms : q.name \notin Range(spec.perms)}

\* the role rows whose name the role mapping lacks
UnnamedRoles(rows, spec) == {r \in rows.roles : r.name \notin DOMAIN spec.roles}

\* the associations of the roles whose name the role mapping lacks
UnnamedAssoc(rows, spec) ==
    {a \in rows.assoc : \E r \in UnnamedRoles(rows, spec) : r.id = a[1]}

(***************************************************************************)
(* C31: a seed run changes only what its permission list and role mapping  *)
(* name. When the run has ended, committed or not, the permission rows and *)
(* role rows under other names are the ones present before the run, the    *)
(* associations of the roles under other names are the ones present before *)
(* the run, no named row present before has gone, and the user rows are    *)
(* the ones present before.                                                *)
(***************************************************************************)
C31_SeedFrame ==
    seed.pc = "done" =>
        /\ UnnamedPerms(store, seed.spec) = UnnamedPerms(seed.pre, seed.spec)
        /\ UnnamedRoles(store, seed.spec) = UnnamedRoles(seed.pre, seed.spec)
        /\ UnnamedAssoc(store, seed.spec) = UnnamedAssoc(seed.pre, seed.spec)
        /\ seed.pre.perms \subseteq store.perms
        /\ seed.pre.roles \subseteq store.roles
        /\ store.users = seed.pre.users

\* a committed run of the member-only mapping has replaced member's
\* associations in a datastore that holds the admin role with associations,
\* the user.view permission and a user
C31_Witness ==
    /\ seed.pc = "done" /\ seed.err = NoErr /\ seed.spec = MemberSeedSpec
    /\ store.assoc # seed.pre.assoc
    /\ UnnamedAssoc(seed.pre, seed.spec) # {}
    /\ UnnamedPerms(seed.pre, seed.spec) # {}
    /\ seed.pre.users # {}
(***************************************************************************)
(* Helpers of the payload claim                                            *)
(***************************************************************************)
\* what the rule gives for a payload: nil for nil, the marker when the text
\* printed for the payload contains a sensitive field in any case, the
\* payload itself otherwise
Redacted(v, fields) ==
    IF v.kind = "nil" THEN NilValue
    ELSE IF SensitiveKey(Render(v), fields) THEN RedactedPayload
    ELSE v

(***************************************************************************)
(* C32: the request shown on the "request received" entry is nil for a nil *)
(* request, the redaction marker if and only if the request's printed text *)
(* contains, case-insensitively, a configured sensitive field, and the     *)
(* request itself otherwise. The same rule gives the response shown on the *)
(* terminal entry, which carries a response only when LogResponses is set, *)
(* the handler returned no error and the response is not nil.              *)
(***************************************************************************)
C32_PayloadRule ==
    \A c \in CallIds :
        /\ (calls[c].pc \in {"handler", "returned"} /\ cfg.LogRequests) =>
               calls[c].entries[1].request = Redacted(calls[c].req, cfg.SensitiveFields)
        /\ calls[c].pc = "returned" =>
               calls[c].entries[2].response =
                   IF cfg.LogResponses /\ calls[c].out.kind = "ok" /\ calls[c].out.resp.kind # "nil"
                   THEN Redacted(calls[c].out.resp, cfg.SensitiveFields)
                   ELSE Absent

\* one call's request, spelled with a capital P, and its echoed response
\* are both shown as the marker; another call's response is shown as it is
C32_Witness ==
    \E c, d \in CallIds :
        /\ cfg.LogRequests /\ cfg.LogResponses
        /\ calls[c].pc = "returned" /\ calls[c].req = ReqStore
        /\ calls[c].out.resp = ReqStore
        /\ calls[c].entries[1].request = RedactedPayload
        /\ calls[c].entries[2].response = RedactedPayload
        /\ calls[d].pc = "returned" /\ calls[d].out.resp = RespUser
        /\ calls[d].entries[2].response = RespUser
C34_PanicValueHidden ==
    \A c, d \in CallIds :
        (/\ calls[c].pc = "returned" /\ calls[c].out.kind = "panic"
         /\ calls[d].pc = "returned" /\ calls[d].out.kind = "panic") =>
            calls[c].err = calls[d].err
(***************************************************************************)
(* C35: no step of any call changes the shared InterceptorConfig, and the  *)
(* metadata map a call came with holds, once the interceptor has used it   *)
(* and for as long as the call and any concurrent call run, the keys and   *)
(* values it came with.                                                    *)
(***************************************************************************)
C35_ConfigAndMetadataUntouched ==
    /\ [](\A c \in CallIds :
            calls[c].pc \in {"handler", "returned"} => calls[c].mdAfter = calls[c].md)
    /\ [][cfg' = cfg]_vars

\* a call whose Authorization value was logged as the marker has returned
\* while another call was in its handler; its own metadata map still holds
\* the value
C35_Witness ==
    \E c \in CallIds :
        /\ calls[c].pc = "returned" /\ calls[c].md = CallMD
        /\ calls[c].inflight # {}
        /\ calls[c].entries[1].metadata.present
        /\ calls[c].entries[1].metadata.md # CallMD.md
        /\ calls[c].mdAfter = CallMD
(***************************************************************************)
(* C36: when the bootstrap context is cancelled or past its deadline at    *)
(* the head of the retry loop, the loop is left with the timeout error and *)
(* no connection attempt is made; once initializeDatabase has returned the *)
(* timeout error nothing is dialled, migrated, seeded or served, and the   *)
(* process ends through logger.Fatal.                                      *)
(***************************************************************************)
C36_TimeoutHonoured ==
    /\ [][(boot.pc = "loop" /\ boot.attempt <= maxRetries /\ CtxDone /\ boot'.pc # "loop") =>
             /\ boot'.pc = "fatal"
             /\ boot'.err.kind = "timeout"
             /\ boot'.tried = boot.tried
             /\ hist' = hist /\ pools' = pools]_vars
    /\ [][boot.err.kind = "timeout" =>
             /\ boot'.err = boot.err
             /\ boot'.pc \in {"fatal", "exited"}
             /\ boot'.tried = boot.tried
             /\ hist' = hist /\ pools' = pools /\ store' = store
             /\ boot'.migrated = boot.migrated
             /\ boot'.events = boot.events /\ boot'.serve = "none"]_vars
    /\ [](boot.err.kind = "timeout" =>
             /\ ~Happened("migrated") /\ ~Happened("seeded") /\ ~Happened("serving")
             /\ boot.exit \in {"running", "fatal"})

\* the context ended during the pause after the first failed attempt: the
\* second attempt was never made and the process has ended
C36_Witness ==
    /\ boot.pc = "exited" /\ boot.exit = "fatal"
    /\ boot.err.kind = "timeout"
    /\ boot.tried = 1 /\ boot.sleeps = 1 /\ boot.attempt = 2
    /\ hist.dials = 1
(***************************************************************************)
(* C37: MigrateWithContext applies Permission, then Role, then User. The   *)
(* first AutoMigrate that fails ends it: the error naming that definition  *)
(* is returned, no AutoMigrate is called again, the definitions after it   *)
(* are not applied, and the bootstrap ends without a seed run.             *)
(***************************************************************************)
C37_MigrateFailStop ==
    /\ [](/\ IsPrefix(boot.migrated, <<"Permission", "Role", "User">>)
          /\ boot.migrateFailed <= 1
          /\ boot.migrateFailed = 1 =>
                /\ boot.pc \in {"fatal", "exited"}
                /\ boot.err.kind = "migrate"
                /\ boot.err.cause = <<"Permission", "Role", "User">>[Len(boot.migrated) + 1]
                /\ boot.exit \in {"running", "fatal"}
                /\ seed.runs = 0 /\ store = EmptyRows
                /\ ~Happened("migrated") /\ ~Happened("seeded") /\ boot.serve = "none")
    /\ [][boot.migrateFailed = 1 => boot'.migrated = boot.migrated]_vars

\* Permission was applied, the AutoMigrate of Role failed: User was not
\* applied and the process has ended unseeded
C37_Witness ==
    /\ boot.pc = "exited" /\ boot.exit = "fatal"
    /\ boot.migrateFailed = 1
    /\ boot.migrated = <<"Permission">>
    /\ boot.err = Errorf("migrate", 0, "Role")
    /\ seed.runs = 0
(***************************************************************************)
(* C38: over every interleaving of InitLogger and GetLogger calls,         *)
(* createLogger runs at most once; every GetLogger call returns the one    *)
(* logger that run created, never nil; the logger, once set, never changes *)
(* and carries the configuration of the call that created it, whatever     *)
(* configuration later InitLogger calls pass.                              *)
(***************************************************************************)
C38_LoggerOnce ==
    /\ [](/\ glog.created <= 1
          /\ NilZap \notin glog.returned
          /\ Cardinality(glog.returned) <= 1
          /\ glog.returned \subseteq {glog.logger}
          /\ glog.logger # NilZap => glog.logger.config = glog.first
          /\ glog.globals \in {NilZap, glog.logger})
    /\ [][glog.logger # NilZap => glog'.logger = glog.logger]_vars

\* GetLogger ran first and created the logger from the default
\* configuration; an InitLogger call with another configuration has
\* returned since, and GetLogger has returned the same logger
C38_Witness ==
    /\ glog.created = 1 /\ glog.first = DefaultLoggerConfig
    /\ glog.returned = {glog.logger}
    /\ \E p \in Callers :
          /\ glog.procs[p].op = "InitLogger" /\ glog.procs[p].pc = "idle"
          /\ glog.procs[p].n = MaxLoggerCalls
          /\ glog.procs[p].config = "main"
    /\ \A p \in Callers : glog.procs[p].pc = "idle"
(***************************************************************************)
(* C39: a Database can be used again after Close. A ConnWithContext call   *)
(* begun after Close has returned nil for a handle never returns that      *)
(* handle: when it returns nil as error its handle is one that was not     *)
(* released before the call began and whose pool was opened by             *)
(* createConnection, now or by a concurrent call; when it fails, it fails  *)
(* with one of the causes of createConnection, never because the Database  *)
(* had been closed.                                                        *)
(***************************************************************************)
C39_ReusableAfterClose ==
    \A p \in Callers :
        (pc[p] = "done" /\ op[p] = "Conn") =>
            /\ ret[p].err = NoErr =>
                   /\ ret[p].handle # NilConn
                   /\ ret[p].handle \notin hist.before[p]
                   /\ ret[p].handle \in hist.passed
            /\ ret[p].err # NoErr => ret[p].err \in ConnCauses

\* a ConnWithContext call begun after a handle had been released has
\* returned another handle, whose pool is open
C39_Witness ==
    \E p \in Callers :
        /\ pc[p] = "done" /\ op[p] = "Conn" /\ ret[p].err = NoErr
        /\ hist.before[p] # {}
        /\ ret[p].handle \notin hist.before[p]
        /\ ret[p].handle \in pools.live
        /\ hist.before[p] \subseteq pools.closed
(***************************************************************************)
(* Helpers of the failed-Close claim                                       *)
(***************************************************************************)
\* what a Close that returns an error leaves behind: the stored handle
FailedCloseStep ==
    \A p \in Callers :
        (ClosesNow(p) /\ op[p] = "Close" /\ ret'[p].err # NoErr) =>
            /\ db.connection # NilConn
            /\ db' = db
            /\ hist'.released = hist.released

\* a ConnWithContext that returns while a handle is stored returns that
\* handle and opens no pool
StoredHandleStep ==
    \A p \in Callers :
        (/\ op[p] = "Conn" /\ pc[p] \in {"rlocked", "locked"} /\ pc'[p] = "done"
         /\ db.connection # NilConn) =>
            /\ ret'[p] = [handle |-> db.connection, err |-> NoErr]
            /\ pools' = pools /\ db' = db

(***************************************************************************)
(* C40: a Close that returns an error leaves the stored handle as it was.  *)
(* A handle on which Close has failed stays stored until a Close returns   *)
(* nil for it, so a later Close finds it and releases it, and              *)
(* ConnWithContext goes on returning it without dialling.                  *)
(***************************************************************************)
C40_FailedCloseKeepsHandle ==
    /\ [](\A h \in hist.failedOn \ hist.released : db.connection = h)
    /\ [][FailedCloseStep]_vars
    /\ [][StoredHandleStep]_vars

\* Close has returned an error for the stored handle, and a ConnWithContext
\* call made afterwards has returned that handle
C40_Witness ==
    \E p, q \in Callers :
        /\ pc[p] = "idle" /\ op[p] = "Close" /\ ret[p].err = "close failed"
        /\ pc[q] = "done" /\ op[q] = "Conn" /\ ret[q].err = NoErr
        /\ ret[q].handle \in hist.failedOn
        /\ db.connection = ret[q].handle
        /\ hist.dials = 1
====
